---- MODULE Spec2Model ----
(***************************************************************************)
(* A model of the ByzCoin ledger service (byzcoin/service.go,              *)
(* byzcoin/statetrie.go, byzcoin/transaction.go): the state trie and its   *)
(* verified commit, the execution of a block body (createStateChanges,     *)
(* ProcessOneTx, executeInstruction), the block verifier                    *)
(* (verifySkipBlock) and the commit callback (updateTrieCallback).          *)
(***************************************************************************)
EXTENDS Integers, Sequences, FiniteSets, TLC

(***************************************************************************)
(* Bounds of the model.                                                    *)
(***************************************************************************)
MaxBlocks == 3
MaxProposals == 1
\* The number of blocks the leaders propose after the genesis block.
MaxRounds == 3
CacheCap == 2
MaxBlockSize == 2
MaxBudget == 2
MaxCalls == 2
MaxWait == 2
MaxBuffer == 1
MaxChain == 13
TickStep == 5
MaxClock == 15
\* The number of blocks of the chain when the clock runs.
MaxTimed == 5
\* The number of streams a node starts and the longest page a request asks for.
MaxNonce == 3
MaxLength == 2
\* The number of requests to the debug endpoints of a node.
MaxDebug == 2
\* The number of collection requests a node answers.
MaxCollect == 2
\* The number of calls of txBuffer.add and of txBuffer.take.
MaxAdds == 3
MaxTakes == 2
\* The longest block interval and the latest timestamp of a header, in seconds.
MaxInterval == 4
MaxStamp == 32
\* The largest roster, the largest index of a local trie, and how far past
\* catchupDownloadAll the index of a reference block lies.
MaxRoster == 9
MaxTrieIndex == 2
MaxAhead == 4

(***************************************************************************)
(* Identities, instances and constants of the program.                     *)
(***************************************************************************)
Nodes == {"n1", "n2"}
Roster == <<"n1", "n2">>
Signers == {"s1", "s2"}

ConfigInstanceID == "cfg"
GenesisDarcID == "d"
InstanceIDs == {"cfg", "d", "x"}
ContractConfigID == "config"
ContractDarcID == "darc"
Contracts == {ContractConfigID, ContractDarcID}

\* publicVersionKey(identity): the trie key holding a signer's counter.
publicVersionKey(id) == IF id = "s1" THEN "ctr1" ELSE "ctr2"
CounterKeys == {publicVersionKey(s) : s \in Signers}
Keys == InstanceIDs \cup CounterKeys

Create == 1
Update == 2
Remove == 3

SpawnType == 1
InvokeType == 2
DeleteType == 3
InvalidInstrType == 0

catchupDownloadAll == 100
catchupFetchBlocks == 10
\* catchupMinimumInterval, in minutes.
catchupMinimumInterval == 10

(***************************************************************************)
(* Sequence helpers.                                                       *)
(***************************************************************************)
Last(s) == s[Len(s)]
Range(s) == {s[i] : i \in 1..Len(s)}

(***************************************************************************)
(* The state trie: a key/value store whose Merkle root commits to every    *)
(* pair.  A value is the encoded StateChangeBody (transaction.go, Val).    *)
(* The root is modelled by the contents it commits to; the block index is  *)
(* metadata next to the contents and is not part of the root.              *)
(***************************************************************************)
NoEntry == [present |-> FALSE, act |-> 0, cid |-> "", val |-> 0, ver |-> 0]
EmptyTrie == [k \in Keys |-> NoEntry]

\* StateChange.Val: the StateChangeBody stored under StateChange.Key.
Val(sc) == [present |-> TRUE, act |-> sc.act, cid |-> sc.cid, val |-> sc.val, ver |-> sc.ver]

\* StateChange.Op: Create and Update set the key, Remove deletes it.
OpIsSet(sc) == sc.act \in {Create, Update}

\* trie Batch of one pair.
BatchOne(t, sc) == [t EXCEPT ![sc.iid] = IF OpIsSet(sc) THEN Val(sc) ELSE NoEntry]

RECURSIVE Batch(_, _)
Batch(t, scs) == IF scs = <<>> THEN t ELSE Batch(BatchOne(t, Head(scs)), Tail(scs))

\* The Merkle root of a trie: a digest of sha256.Size bytes.
sha256Size == 32
GetRoot(t) == [len |-> sha256Size, h |-> t]

\* StagingStateTrie.GetValues / stateTrie.GetValues
KeySet(t, k) == t[k].present

\* NewStateChange: the version is filled in by executeInstruction.
NewStateChange(sa, iid, contractID, value) ==
    [act |-> sa, iid |-> iid, cid |-> contractID, val |-> value, ver |-> 0]

\* The persistent trie of one chain on one node: contents plus the index
\* metadata (nil is modelled by present = FALSE).
NoStateTrie == [exists |-> FALSE, data |-> EmptyTrie, hasIndex |-> FALSE, index |-> 0]
newStateTrie == [exists |-> TRUE, data |-> EmptyTrie, hasIndex |-> FALSE, index |-> 0]

\* stateTrie.GetIndex
GetIndex(st) == IF ~st.hasIndex THEN -1 ELSE st.index

\* An Update transaction that keeps the changes of fn whatever fn returns.
DBUpdateNoRollback(st, res) == res.st

\* A bbolt Update transaction: the changes of fn are kept iff fn returns nil.
DBUpdate(st, res) == IF res.err THEN st ELSE res.st

\* stateTrie.VerifiedStoreAll: inside one Update transaction, batch the
\* pairs, set the index metadata (a block index fits the four bytes it is
\* written to), then compare the roots.
VerifiedStoreAllTx(st, scs, index, expectedRoot) ==
    LET data == Batch(st.data, scs)
    IN [st  |-> [st EXCEPT !.data = data, !.hasIndex = TRUE, !.index = index],
        err |-> GetRoot(data) # expectedRoot]

VerifiedStoreAll(st, scs, index, expectedRoot) ==
    LET res == VerifiedStoreAllTx(st, scs, index, expectedRoot)
    IN [st |-> DBUpdate(st, res), err |-> res.err]

(***************************************************************************)
(* Instructions and transactions.  An instruction carries the three        *)
(* optional variants, the signer identities with one counter and one       *)
(* signature each, and its arguments.  The arguments decide what the       *)
(* contract emits: out is the list of changes the contract returns for     *)
(* this instruction and cerr tells whether it returns an error.            *)
(***************************************************************************)
Instr(iid, spawn, invoke, delete, cid, cmd, signers, ctrs, sigs, out, cerr, newview) ==
    [iid |-> iid, spawn |-> spawn, invoke |-> invoke, delete |-> delete,
     cid |-> cid, cmd |-> cmd, signers |-> signers, ctrs |-> ctrs, sigs |-> sigs,
     out |-> out, cerr |-> cerr, newview |-> newview]

Item(act, iid, cid, val) == [act |-> act, iid |-> iid, cid |-> cid, val |-> val]

\* Instruction.GetType
GetType(instr) ==
    IF instr.spawn /\ ~instr.invoke /\ ~instr.delete THEN SpawnType
    ELSE IF ~instr.spawn /\ instr.invoke /\ ~instr.delete THEN InvokeType
    ELSE IF ~instr.spawn /\ ~instr.invoke /\ instr.delete THEN DeleteType
    ELSE InvalidInstrType

\* Instruction.Action
Action(instr) ==
    IF GetType(instr) = SpawnType THEN [kind |-> "spawn", cid |-> instr.cid, cmd |-> ""]
    ELSE IF GetType(instr) = InvokeType THEN [kind |-> "invoke", cid |-> instr.cid, cmd |-> instr.cmd]
    ELSE IF GetType(instr) = DeleteType THEN [kind |-> "delete", cid |-> instr.cid, cmd |-> ""]
    ELSE [kind |-> "invalid", cid |-> "", cmd |-> ""]

\* Instruction.Hash: instance id, variant tag and contract id, arguments,
\* counters and signer identities.  Neither the command of an Invoke nor
\* the signatures are hashed.
InstrHash(instr) ==
    [iid |-> instr.iid, tag |-> GetType(instr),
     cid |-> IF GetType(instr) = InvalidInstrType THEN "" ELSE instr.cid,
     args |-> IF GetType(instr) \in {SpawnType, InvokeType}
              THEN [out |-> instr.out, cerr |-> instr.cerr, newview |-> instr.newview]
              ELSE [out |-> <<>>, cerr |-> FALSE, newview |-> FALSE],
     ctrs |-> instr.ctrs, signers |-> instr.signers]

\* Instructions.Hash
InstructionsHash(tx) == [i \in 1..Len(tx) |-> InstrHash(tx[i])]

\* A TxResult and NewTxResults
TxResult(tx, accepted) == [tx |-> tx, accepted |-> accepted]
NewTxResults(txs) == [i \in 1..Len(txs) |-> TxResult(txs[i], FALSE)]

\* TxResults.Hash
TxResultsHash(txr) ==
    [i \in 1..Len(txr) |-> [h |-> InstructionsHash(txr[i].tx), accepted |-> txr[i].accepted]]

\* StateChanges.Hash
StateChangesHash(scs) == scs

(***************************************************************************)
(* Signer counters and the DARC check.                                     *)
(***************************************************************************)
getSignerCounter(st, id) ==
    IF KeySet(st, publicVersionKey(id)) THEN st[publicVersionKey(id)].val ELSE 0

verifySignerCounters(st, ctrs, ids) ==
    /\ Len(ctrs) = Len(ids)
    /\ \A i \in 1..Len(ids) : getSignerCounter(st, ids[i]) + 1 = ctrs[i]

incrementSignerCounters(st, ids) ==
    [i \in 1..Len(ids) |->
        [act |-> Update, iid |-> publicVersionKey(ids[i]), cid |-> "",
         val |-> getSignerCounter(st, ids[i]) + 1, ver |-> 0]]

\* The rules of the genesis DARC: who satisfies the expression of an action.
DarcRule(action) ==
    IF action.kind \in {"spawn", "invoke"} THEN {"s1", "s2"}
    ELSE IF action.kind = "delete" THEN {"s1"}
    ELSE {}
DarcHasRule(action) == action.kind \in {"spawn", "invoke", "delete"}
EvalExpr(expr, ids) == \E i \in 1..Len(ids) : ids[i] \in expr

\* getInstanceDarc: the DARC governing an instance is found iff the
\* instance is in the trie.
getInstanceDarc(st, iid) == KeySet(st, iid)

\* Instruction.Verify that does not look at the counters.
VerifyNoCounters(st, instr) ==
    /\ Len(instr.signers) = Len(instr.sigs)
    /\ KeySet(st, ConfigInstanceID)
    /\ getInstanceDarc(st, instr.iid)
    /\ Len(instr.sigs) # 0
    /\ DarcHasRule(Action(instr))
    /\ \A i \in 1..Len(instr.sigs) : instr.sigs[i]
    /\ EvalExpr(DarcRule(Action(instr)), instr.signers)

\* Instruction.Verify that takes a counter that was used before.
VerifyOldCounters(st, instr) ==
    /\ Len(instr.signers) = Len(instr.sigs)
    /\ Len(instr.ctrs) = Len(instr.signers)
    /\ \A i \in 1..Len(instr.signers) :
            instr.ctrs[i] <= getSignerCounter(st, instr.signers[i]) + 1
    /\ KeySet(st, ConfigInstanceID)
    /\ getInstanceDarc(st, instr.iid)
    /\ Len(instr.sigs) # 0
    /\ DarcHasRule(Action(instr))
    /\ \A i \in 1..Len(instr.sigs) : instr.sigs[i]
    /\ EvalExpr(DarcRule(Action(instr)), instr.signers)

\* Instruction.Verify: TRUE iff no error is returned.
Verify(st, instr) ==
    /\ Len(instr.signers) = Len(instr.sigs)
    /\ verifySignerCounters(st, instr.ctrs, instr.signers)
    /\ KeySet(st, ConfigInstanceID)
    /\ getInstanceDarc(st, instr.iid)
    /\ Len(instr.sigs) # 0
    /\ DarcHasRule(Action(instr))
    /\ \A i \in 1..Len(instr.sigs) : instr.sigs[i]
    /\ EvalExpr(DarcRule(Action(instr)), instr.signers)

(***************************************************************************)
(* Contracts (the contract interface of the dispatcher).                   *)
(***************************************************************************)
\* ContractObject.verify: the config contract accepts the bootstrap spawn
\* and a view_change that carries a valid new-view request; everything
\* else goes through Instruction.Verify.
VerifyInstruction(cname, st, instr) ==
    IF cname = ContractConfigID /\ ~KeySet(st, ConfigInstanceID) THEN GetType(instr) = SpawnType
    ELSE IF cname = ContractConfigID /\ instr.invoke /\ instr.cmd = "view_change" THEN instr.newview
    ELSE Verify(st, instr)

\* ContractObject.spawn / invoke / delete
ContractCall(cname, st, instr) ==
    [scs |-> [i \in 1..Len(instr.out) |->
                NewStateChange(instr.out[i].act, instr.out[i].iid, instr.out[i].cid, instr.out[i].val)],
     err |-> instr.cerr]

(***************************************************************************)
(* executeInstruction.                                                     *)
(***************************************************************************)
\* The version loop: vv remembers the version given to an instance by an
\* earlier change of the same instruction; err is "nil", "notset" or "other".
RECURSIVE setVersions(_, _, _, _, _)
setVersions(st, scs, i, vv, err) ==
    IF i > Len(scs) THEN [scs |-> scs, err |-> err # "nil"]
    ELSE LET k    == scs[i].iid
             ok   == k \in DOMAIN vv
             ver0 == IF ok THEN vv[k] ELSE IF KeySet(st, k) THEN st[k].ver ELSE 0
             err1 == IF ok THEN err ELSE IF KeySet(st, k) THEN "nil" ELSE "notset"
         IN IF err1 = "notset"
            THEN setVersions(st, [scs EXCEPT ![i].ver = 0], i + 1, (k :> 0) @@ vv, "nil")
            ELSE IF err1 # "nil"
            THEN [scs |-> scs, err |-> TRUE]
            ELSE setVersions(st, [scs EXCEPT ![i].ver = ver0 + 1], i + 1,
                             (k :> (ver0 + 1)) @@ vv, "nil")

executeInstruction(st, instr) ==
    LET contractID == IF KeySet(st, instr.iid) THEN st[instr.iid].cid ELSE ""
        exists     == contractID \in Contracts \/ instr.iid = ConfigInstanceID
        cname      == IF contractID \in Contracts THEN contractID ELSE ContractConfigID
    IN IF ~exists THEN [scs |-> <<>>, err |-> TRUE]
       ELSE IF ~VerifyInstruction(cname, st, instr) THEN [scs |-> <<>>, err |-> TRUE]
       ELSE IF GetType(instr) = InvalidInstrType THEN [scs |-> <<>>, err |-> TRUE]
       ELSE LET r == ContractCall(cname, st, instr)
            IN setVersions(st, r.scs, 1, <<>>, IF r.err THEN "other" ELSE "nil")

(***************************************************************************)
(* ProcessOneTx: all instructions of one transaction against a clone of    *)
(* the staging trie.                                                       *)
(***************************************************************************)
\* A check that lets every Create and every Remove pass.
ValidChangeUpdateOnly(sst, sc) ==
    IF sc.act = Update THEN KeySet(sst, sc.iid)
    ELSE TRUE

\* The check of one state change against the staging trie: the reason is
\* non-empty for a Create of a present key and for an Update or a Remove
\* of an absent one.
ValidChange(sst, sc) ==
    IF sc.act = Create THEN ~KeySet(sst, sc.iid)
    ELSE IF sc.act \in {Update, Remove} THEN KeySet(sst, sc.iid)
    ELSE TRUE

\* The loop over the state changes of one instruction: check, then store
\* each change on its own.
RECURSIVE storeChecked(_, _)
storeChecked(sst, scs) ==
    IF scs = <<>> THEN [sst |-> sst, err |-> FALSE]
    ELSE IF ~ValidChange(sst, Head(scs)) THEN [sst |-> sst, err |-> TRUE]
    ELSE storeChecked(BatchOne(sst, Head(scs)), Tail(scs))

\* The loop over the instructions; statesTemp collects the changes.
RECURSIVE processInstrs(_, _, _)

\* The end of one round of the loop with the counters left alone.
instrDoneNoIncrement(instrs, statesTemp, scs, counterScs, stored) ==
    IF stored.err THEN [err |-> TRUE, scs |-> <<>>, sst |-> stored.sst]
    ELSE processInstrs(stored.sst, Tail(instrs), statesTemp \o scs)

\* The end of one round of the loop: the changes of the instruction were
\* checked and stored one by one, the counter changes are stored in one
\* batch, and both are appended to statesTemp.
instrDone(instrs, statesTemp, scs, counterScs, stored) ==
    IF stored.err THEN [err |-> TRUE, scs |-> <<>>, sst |-> stored.sst]
    ELSE processInstrs(Batch(stored.sst, counterScs), Tail(instrs),
                       statesTemp \o scs \o counterScs)

\* One round of the loop after executeInstruction returned r.
instrExecuted(sst, instrs, statesTemp, r) ==
    IF r.err THEN [err |-> TRUE, scs |-> <<>>, sst |-> sst]
    ELSE instrDone(instrs, statesTemp, r.scs,
                   incrementSignerCounters(sst, Head(instrs).signers),
                   storeChecked(sst, r.scs))

processInstrs(sst, instrs, statesTemp) ==
    IF instrs = <<>> THEN [err |-> FALSE, scs |-> statesTemp, sst |-> sst]
    ELSE instrExecuted(sst, instrs, statesTemp, executeInstruction(sst, Head(instrs)))

ProcessOneTx(sst, tx) == processInstrs(sst, tx, <<>>)

(***************************************************************************)
(* The state-change cache: (chain, digest of the transaction batch) ->     *)
(* (merkle root, tx results, state changes), least recently used entry     *)
(* evicted first.  One chain is modelled, so the key is the digest.        *)
(***************************************************************************)
CacheHas(cache, digest) == \E i \in 1..Len(cache) : cache[i].digest = digest
CachePos(cache, digest) == CHOOSE i \in 1..Len(cache) : cache[i].digest = digest
CacheDrop(cache, digest) == SelectSeq(cache, LAMBDA e : e.digest # digest)
CacheTrim(cache) == IF Len(cache) > CacheCap THEN SubSeq(cache, 1, CacheCap) ELSE cache

\* stateChangeCache.get: the entry, which becomes the most recently used.
CacheGet(cache, digest) ==
    LET e == cache[CachePos(cache, digest)]
    IN [entry |-> e, cache |-> <<e>> \o CacheDrop(cache, digest)]

\* stateChangeCache.update
CacheUpdate(cache, digest, merkleRoot, txOut, states) ==
    CacheTrim(<<[digest |-> digest, root |-> merkleRoot, txOut |-> txOut, states |-> states]>>
              \o CacheDrop(cache, digest))

(***************************************************************************)
(* createStateChanges.  A timeout other than noTimeout is the planning     *)
(* mode of the leader: budget is the number of transactions that are       *)
(* executed before the deadline has passed, maxsz the block size limit.    *)
(***************************************************************************)
noTimeout == 0
NilRoot == [len |-> 0, h |-> EmptyTrie]

\* txSize: the encoded size of a TxResult, one unit per instruction.
txSize(tx) == Len(tx)

\* The loop over the transactions.  done counts the transactions that were
\* executed, blocksz is the size of the accepted ones.
RECURSIVE runTxs(_, _, _, _, _, _, _, _)

\* One round of the loop after ProcessOneTx returned r, with a rejected
\* transaction left out of the results.
txProcessedDropRejected(sstTemp, txIn, txOut, states, blocksz, done, timeout, budget, r) ==
    IF r.err
    THEN runTxs(sstTemp, Tail(txIn), txOut, states, blocksz, done + 1, timeout, budget)
    ELSE IF timeout # noTimeout
            /\ (done + 1 > budget \/ blocksz + txSize(Head(txIn).tx) > MaxBlockSize)
    THEN [early |-> TRUE, sst |-> sstTemp, txOut |-> txOut, states |-> states]
    ELSE runTxs(r.sst, Tail(txIn), Append(txOut, TxResult(Head(txIn).tx, TRUE)),
                states \o r.scs, blocksz + txSize(Head(txIn).tx), done + 1, timeout, budget)

\* One round of the loop after ProcessOneTx returned r, with the clone of
\* a rejected transaction kept as the staging trie.
txProcessedKeepsClone(sstTemp, txIn, txOut, states, blocksz, done, timeout, budget, r) ==
    IF r.err
    THEN runTxs(r.sst, Tail(txIn), Append(txOut, TxResult(Head(txIn).tx, FALSE)), states,
                blocksz, done + 1, timeout, budget)
    ELSE IF timeout # noTimeout
            /\ (done + 1 > budget \/ blocksz + txSize(Head(txIn).tx) > MaxBlockSize)
    THEN [early |-> TRUE, sst |-> sstTemp, txOut |-> txOut, states |-> states]
    ELSE runTxs(r.sst, Tail(txIn), Append(txOut, TxResult(Head(txIn).tx, TRUE)),
                states \o r.scs, blocksz + txSize(Head(txIn).tx), done + 1, timeout, budget)

\* One round of the loop after ProcessOneTx returned r: a rejected
\* transaction is appended with accepted = false and sstTemp stays; an
\* accepted one is appended with its changes unless, in planning mode, the
\* deadline has passed or the block would become too big.
txProcessed(sstTemp, txIn, txOut, states, blocksz, done, timeout, budget, r) ==
    IF r.err
    THEN runTxs(sstTemp, Tail(txIn), Append(txOut, TxResult(Head(txIn).tx, FALSE)), states,
                blocksz, done + 1, timeout, budget)
    ELSE IF timeout # noTimeout
            /\ (done + 1 > budget \/ blocksz + txSize(Head(txIn).tx) > MaxBlockSize)
    THEN [early |-> TRUE, sst |-> sstTemp, txOut |-> txOut, states |-> states]
    ELSE runTxs(r.sst, Tail(txIn), Append(txOut, TxResult(Head(txIn).tx, TRUE)),
                states \o r.scs, blocksz + txSize(Head(txIn).tx), done + 1, timeout, budget)

runTxs(sstTemp, txIn, txOut, states, blocksz, done, timeout, budget) ==
    IF txIn = <<>> THEN [early |-> FALSE, sst |-> sstTemp, txOut |-> txOut, states |-> states]
    ELSE txProcessed(sstTemp, txIn, txOut, states, blocksz, done, timeout, budget,
                     ProcessOneTx(sstTemp, Head(txIn).tx))

\* The end of createStateChanges on a cache miss: r is what the loop
\* returned.  An early return of the planning mode leaves the root nil and
\* the cache alone.
batchDone(cache, r) ==
    IF r.early
    THEN [root |-> NilRoot, txOut |-> r.txOut, states |-> r.states, cache |-> cache, hit |-> FALSE]
    ELSE [root |-> GetRoot(r.sst), txOut |-> r.txOut, states |-> r.states,
          cache |-> IF Len(r.states) # 0 /\ Len(r.txOut) # 0
                    THEN CacheUpdate(cache, TxResultsHash(r.txOut), GetRoot(r.sst), r.txOut, r.states)
                    ELSE cache,
          hit |-> FALSE]

\* The end of createStateChanges on a cache hit.
cacheHit(g) ==
    [root |-> g.entry.root, txOut |-> g.entry.txOut, states |-> g.entry.states,
     cache |-> g.cache, hit |-> TRUE]

createStateChanges(cache, sst, txIn, timeout, budget) ==
    IF CacheHas(cache, TxResultsHash(txIn))
    THEN cacheHit(CacheGet(cache, TxResultsHash(txIn)))
    ELSE batchDone(cache, runTxs(sst, txIn, <<>>, <<>>, 0, 0, timeout, budget))

(***************************************************************************)
(* View-change bodies.                                                     *)
(***************************************************************************)
\* isViewChangeTx: TRUE iff a view is returned (not nil).
isViewChangeTx(txs) ==
    /\ Len(txs) = 1
    /\ Len(txs[1].tx) = 1
    /\ txs[1].tx[1].invoke
    /\ txs[1].tx[1].cmd = "view_change"
    /\ txs[1].tx[1].newview

(***************************************************************************)
(* The view-change manager of one chain on one node: "off" (no monitor),   *)
(* "started" (monitoring) or "waiting" (a view change is in progress).     *)
(***************************************************************************)
vcStarted(vc) == vc # "off"
vcWaiting(vc) == vc = "waiting"
vcDone(vc) == "started"
vcStop(vc) == "off"
vcStart(vc) == "started"
\* addReq of the node's own InitReq: the monitor, if any, starts waiting.
vcAddReq(vc) == IF vc = "off" THEN "off" ELSE "waiting"

(***************************************************************************)
(* Blocks.  prev is the id of the block the new one is linked to (0 for    *)
(* the genesis block); the id of a block is given by the skipchain when    *)
(* the block is signed and stored.                                         *)
(***************************************************************************)
NoBlock == [index |-> -1, id |-> 0]

\* The bootstrap transaction of CreateGenesisBlock: one Spawn of the config
\* contract on the config instance, without signers; the contract creates
\* the configuration and the genesis DARC.
GenesisTx ==
    <<Instr(ConfigInstanceID, TRUE, FALSE, FALSE, ContractConfigID, "", <<>>, <<>>, <<>>,
            <<Item(Create, ConfigInstanceID, ContractConfigID, 0),
              Item(Create, GenesisDarcID, ContractDarcID, 0)>>, FALSE, FALSE)>>

\* createNewBlock from the state changes r on: the body, the header and
\* the links of the new block.
blockBuilt(sbLatest, r) ==
    [err   |-> Len(r.txOut) = 0,
     cache |-> r.cache,
     scs   |-> r.states,
     sb    |-> [index  |-> sbLatest.index + 1,
                prev   |-> sbLatest.id,
                body   |-> r.txOut,
                root   |-> r.root,
                txHash |-> TxResultsHash(r.txOut),
                scHash |-> StateChangesHash(r.states)]]

\* createNewBlock up to the hand-over to the skipchain: the final build on
\* the staging trie sst, linked to the latest block sbLatest.
createNewBlock(cache, sst, sbLatest, tx) ==
    blockBuilt(sbLatest, createStateChanges(cache, sst, tx, noTimeout, 0))

\* LoadConfigFromTrie: TRUE iff the configuration is found.
LoadConfigFromTrie(sst) == KeySet(sst, ConfigInstanceID)

\* verifySkipBlock returns false before the body was executed.
rejected(cache) ==
    [mtr |-> NilRoot, txOut |-> <<>>, scs |-> <<>>, executed |-> FALSE,
     ok |-> FALSE, cache |-> cache]

\* verifySkipBlock, the check of the header sizes.
headerCheck(newSB) == newSB.root.len = sha256Size

\* verifySkipBlock without the check of the view change.
viewChangeCheckNone(vc, body) == TRUE

\* verifySkipBlock, the check that holds back blocks during a view change.
viewChangeCheck(vc, body) == ~(vcWaiting(vc) /\ ~isViewChangeTx(body))

\* verifySkipBlock, the comparison of the local execution r with the body
\* and the header, and the configuration of the new state.
compareWithHeader(newSB, sst, r) ==
    [mtr |-> r.root, txOut |-> r.txOut, scs |-> r.states, executed |-> TRUE,
     ok |-> /\ Len(r.txOut) = Len(newSB.body)
            /\ \A i \in 1..Len(r.txOut) : r.txOut[i].accepted = newSB.body[i].accepted
            /\ newSB.txHash = TxResultsHash(r.txOut)
            /\ newSB.root = r.root
            /\ newSB.scHash = StateChangesHash(r.states)
            /\ LoadConfigFromTrie(Batch(sst, r.states)),
     cache |-> r.cache]

\* verifySkipBlock from the staging trie on.
executeAndCompare(cache, sst, newSB) ==
    compareWithHeader(newSB, sst, createStateChanges(cache, sst, newSB.body, noTimeout, 0))

executionCheck(nd, newSB) ==
    IF newSB.index # 0 /\ ~nd.st.exists THEN rejected(nd.cache)
    ELSE executeAndCompare(nd.cache, IF newSB.index = 0 THEN EmptyTrie ELSE nd.st.data, newSB)

verifySkipBlock(nd, newSB) ==
    IF ~headerCheck(newSB) THEN rejected(nd.cache)
    ELSE IF ~viewChangeCheck(nd.vc, newSB.body) THEN rejected(nd.cache)
    ELSE executionCheck(nd, newSB)

(***************************************************************************)
(* The state of the system.                                                *)
(*   node[n]    the service on node n: its state trie, state-change cache, *)
(*              the blocks of its skipchain database, the catching-up      *)
(*              flag, the view-change monitor, the polling task and the    *)
(*              heartbeat monitor, and a record of the last block the      *)
(*              commit callback applied;                                   *)
(*   store      the blocks that were collectively signed, in the order of  *)
(*              their signing; the id of a block is its position;          *)
(*   proposals  the blocks proposed to the skipchain and not yet signed or *)
(*              dropped, with the votes of the verifiers;                  *)
(*   trie, call a state trie on its own and the last VerifiedStoreAll      *)
(*              called on it, for the study of the verified commit;        *)
(*   clock      the time in minutes, catchingUpHistory of every node for   *)
(*              the chain, the time at which every node last started a     *)
(*              catch-up (-1: never), and stamp, the last check of the     *)
(*              timestamp of a block (times in seconds).                   *)
(***************************************************************************)
VARIABLES node, store, proposals, rounds, trie, call, clock

vars == <<node, store, proposals, rounds, trie, call, clock>>
storeVars == <<trie, call, clock>>

NoLast == [id |-> 0, index |-> -1, body |-> <<>>, scs |-> <<>>,
           pre |-> EmptyTrie, post |-> EmptyTrie, accPre |-> {}]

(***************************************************************************)
(* The client transactions of the model.                                   *)
(***************************************************************************)
\* s1 spawns instance x from the genesis DARC.
TxSpawn ==
    <<Instr(GenesisDarcID, TRUE, FALSE, FALSE, ContractDarcID, "", <<"s1">>, <<1>>, <<TRUE>>,
            <<Item(Create, "x", ContractDarcID, 1)>>, FALSE, FALSE)>>

\* Two instructions of the fresh signer s2; the first one changes the
\* genesis DARC twice.
TxTwo ==
    <<Instr(GenesisDarcID, FALSE, TRUE, FALSE, ContractDarcID, "evolve", <<"s2">>, <<1>>, <<TRUE>>,
            <<Item(Update, GenesisDarcID, ContractDarcID, 1),
              Item(Update, GenesisDarcID, ContractDarcID, 2)>>, FALSE, FALSE),
      Instr(GenesisDarcID, FALSE, TRUE, FALSE, ContractDarcID, "evolve", <<"s2">>, <<2>>, <<TRUE>>,
            <<>>, FALSE, FALSE)>>

\* s1 has x removed and created again by one instruction.
TxRenew ==
    <<Instr("x", FALSE, TRUE, FALSE, ContractDarcID, "renew", <<"s1">>, <<2>>, <<TRUE>>,
            <<Item(Remove, "x", ContractDarcID, 0),
              Item(Create, "x", ContractDarcID, 2)>>, FALSE, FALSE)>>

\* A transaction of s1 whose signature does not verify.
TxBadSig ==
    <<Instr(GenesisDarcID, FALSE, TRUE, FALSE, ContractDarcID, "evolve", <<"s1">>, <<1>>, <<FALSE>>,
            <<Item(Update, GenesisDarcID, ContractDarcID, 3)>>, FALSE, FALSE)>>

\* The transaction of sendNewView: one Invoke of view_change on the config
\* instance with the signed new-view request; it rotates the leader.
TxViewChange ==
    <<Instr(ConfigInstanceID, FALSE, TRUE, FALSE, ContractConfigID, "view_change", <<>>, <<>>, <<>>,
            <<Item(Update, ConfigInstanceID, ContractConfigID, 1)>>, FALSE, TRUE)>>

ClientTxs == {TxSpawn, TxTwo, TxRenew, TxBadSig}

\* The lists of transactions the leader collects for one block.
Batches == {<<t>> : t \in ClientTxs}
           \cup {<<t, u>> : t \in {TxSpawn, TxBadSig}, u \in ClientTxs \ {TxBadSig}}

\* A transaction larger than the block size limit.
TxLarge == TxTwo \o TxSpawn

\* The transactions a client waits for.
WaitTxs == ClientTxs

(***************************************************************************)
(* The client requests of a node and its notifications.                    *)
(***************************************************************************)
\* The concurrent AddTransaction requests a node serves.
Calls == 1..MaxCalls

\* The chain of the model, a chain the node stores without being in its
\* roster, and a chain the node does not know.
ChainID == "c"
OtherChainID == "o"
UnknownChainID == "u"

CurrentVersion == 1

AddTxRequest(version, chain, tx, wait) ==
    [version |-> version, chain |-> chain, tx |-> tx, wait |-> wait]

\* A request handler: its position, the channels it made (ch for its
\* transaction, blockCh for the new blocks), the blocks left to wait for
\* and what it returned; base is the number of blocks the node had applied
\* when the handler registered, hit whether the transaction was accepted
\* in one of the next InclusionWait blocks when it returned, others
\* whether it took the id of another chain from blockCh.
IdleCall == [pc |-> "idle", req |-> AddTxRequest(0, "", <<>>, 0), blocksLeft |-> 0,
             ch |-> <<>>, blockCh |-> <<>>, sub |-> FALSE, res |-> "none",
             base |-> 0, hit |-> FALSE, others |-> FALSE]

\* The keys of the wait channels: the hashes of the transactions.
WaitKeys == {InstructionsHash(tx) : tx \in WaitTxs}

\* bcNotifications.waitChannels: the handler whose channel is registered
\* under the hash, 0 for none.
NoWaitChannels == [h \in WaitKeys |-> 0]

createWaitChannel(nd, h, c) == [nd EXCEPT !.wait[h] = c, !.calls[c].ch = <<>>]

deleteWaitChannel(nd, h) == [nd EXCEPT !.wait[h] = 0]

registerForBlocks(nd, c) == [nd EXCEPT !.calls[c].sub = TRUE, !.calls[c].blockCh = <<>>]

unregisterForBlocks(nd, c) == [nd EXCEPT !.calls[c].sub = FALSE]

informWaitChannel(nd, h, valid) ==
    IF h \in WaitKeys /\ nd.wait[h] # 0
    THEN [nd EXCEPT !.calls[nd.wait[h]].ch = Append(@, valid)]
    ELSE nd

informBlock(nd, id) ==
    [nd EXCEPT !.calls = [c \in Calls |->
        IF nd.calls[c].sub THEN [nd.calls[c] EXCEPT !.blockCh = Append(@, id)]
        ELSE nd.calls[c]]]

\* A loop that reports every transaction of the body as accepted.
RECURSIVE informTxsAccepted(_, _, _)
informTxsAccepted(nd, body, i) ==
    IF i > Len(body) THEN nd
    ELSE informTxsAccepted(informWaitChannel(nd, InstructionsHash(body[i].tx), TRUE),
                           body, i + 1)

\* The loop over the transactions of the body from position i on.
RECURSIVE informTxs(_, _, _)
informTxs(nd, body, i) ==
    IF i > Len(body) THEN nd
    ELSE informTxs(informWaitChannel(nd, InstructionsHash(body[i].tx), body[i].accepted),
                   body, i + 1)

\* The notifications of the callback for the applied block sb.
notify(nd, sb) == informBlock(informTxs(nd, sb.body, 1), ChainID)

\* newTxBuffer, with no goroutine calling it: the map of the buffered
\* transactions of every chain, the holder of the mutex (0: nobody), and
\* for every goroutine the call it is in; added and taken remember the
\* transactions that were added to the buffer of every chain and those the
\* calls of take have returned.
Threads == {1, 2}
Chains == {"c", "o"}
NoTxs == [ok |-> FALSE, txs |-> <<>>]
NoTxBuffer ==
    [txsMap |-> [k \in Chains |-> NoTxs], holder |-> 0, next |-> 1, takes |-> 0,
     th |-> [t \in Threads |-> [pc |-> "idle", key |-> "", tx |-> 0, local |-> NoTxs]],
     added |-> [k \in Chains |-> <<>>], taken |-> [k \in Chains |-> <<>>]]

\* The downloadState of a service that has served no DownloadState.
NoDownload ==
    [id |-> 0, nonce |-> 0, drawn |-> 0, stop |-> "none", read |-> <<>>, snap |-> <<>>,
     got |-> <<>>, panic |-> FALSE,
     resp |-> [req |-> [id |-> 0, nonce |-> 0, length |-> 0], err |-> "no request",
               nonce |-> 0, kvs |-> <<>>, known |-> FALSE,
               before |-> [id |-> 0, nonce |-> 0, read |-> <<>>]]]

InitNode == [st |-> NoStateTrie, cache |-> <<>>, db |-> {}, catchingUp |-> FALSE,
             cuTarget |-> 0, cuLatest |-> 0, vc |-> "off", polling |-> FALSE, tasks |-> 0,
             hb |-> FALSE,
             last |-> NoLast, applied |-> <<>>, acc |-> {}, dup |-> FALSE,
             buf |-> <<>>, wait |-> NoWaitChannels, calls |-> [c \in Calls |-> IdleCall],
             dl |-> [made |-> FALSE, err |-> FALSE], ds |-> NoDownload,
             closed |-> FALSE, txb |-> NoTxBuffer, stale |-> FALSE, triesLocked |-> FALSE,
             access |-> [downloading |-> FALSE, by |-> "none", kind |-> "none",
                         held |-> FALSE, during |-> FALSE],
             collect |-> [count |-> 0, leader |-> "", id |-> 0, txs |-> <<>>, beat |-> FALSE],
             debug |-> [count |-> 0, path |-> "none", addr |-> "", valid |-> FALSE,
                        served |-> FALSE],
             query |-> [kind |-> "none", during |-> FALSE, held |-> FALSE, read |-> FALSE,
                        err |-> "none"]]

\* time.Now() is 0 when the services start; catchingUpHistory has the zero
\* time for a chain without an entry.
InitClock == [now |-> 0, history |-> [n \in Nodes |-> 0], started |-> [n \in Nodes |-> -1],
              stamp |-> [interval |-> 0, update |-> 0, ts |-> 0, now |-> 0,
                         done |-> FALSE, ok |-> FALSE],
              choice |-> [done |-> FALSE, exists |-> FALSE, trieIndex |-> 0, sbIndex |-> 0,
                          nodes |-> 0, download |-> FALSE, asked |-> {}]]

NoCall == [made |-> FALSE, pre |-> NoStateTrie, scs |-> <<>>, index |-> 0,
           expectedRoot |-> NilRoot, err |-> FALSE]

Init ==
    /\ node = [n \in Nodes |-> InitNode]
    /\ store = <<>>
    /\ proposals = {}
    /\ rounds = 0
    /\ trie = newStateTrie
    /\ call = NoCall
    /\ clock = InitClock

\* LoadConfig: the value of the config instance is the number of leader
\* rotations, Roster.List[0] of the configuration is the leader.
LeaderOf(data) == Roster[(data[ConfigInstanceID].val % Len(Roster)) + 1]

\* The pairs (signer, counter) of the instructions of a transaction.
PairsOf(tx) == UNION {{<<tx[i].signers[j], tx[i].ctrs[j]>> : j \in 1..Len(tx[i].signers)} :
                        i \in 1..Len(tx)}

AcceptedOf(body) == {i \in 1..Len(body) : body[i].accepted}
AcceptedTxs(body) == {body[i].tx : i \in AcceptedOf(body)}

\* Two accepted transactions of the body share a pair, or one of them has
\* a pair of a transaction accepted in an earlier block.
RepeatsPair(acc, body) ==
    \/ \E i \in AcceptedOf(body) : \E t \in acc : PairsOf(body[i].tx) \cap PairsOf(t) # {}
    \/ \E i, j \in AcceptedOf(body) : i < j /\ PairsOf(body[i].tx) \cap PairsOf(body[j].tx) # {}

(***************************************************************************)
(* updateTrieCallback.                                                     *)
(***************************************************************************)
\* hasStateTrie: stateTries has an entry for the chain, which is the trie
\* the node has created or loaded, or a stale entry whose bucket was
\* deleted.
hasStateTrie(nd) == nd.st.exists \/ nd.stale

\* len(sb.ForwardLink) > 0, as far as the node's database knows.
hasForwardLink(db, id) == \E c \in db : store[c].prev = id

\* The check of the block index against the index of the trie.
indexCheckNoRepeat(sbIndex, trieIndex) ==
    IF sbIndex < trieIndex THEN "refuse"
    ELSE IF sbIndex > trieIndex + 1 THEN "gap"
    ELSE "apply"

indexCheckNoGap(sbIndex, trieIndex) ==
    IF sbIndex <= trieIndex THEN "refuse"
    ELSE "apply"

indexCheck(sbIndex, trieIndex) ==
    IF sbIndex <= trieIndex THEN "refuse"
    ELSE IF sbIndex > trieIndex + 1 THEN "gap"
    ELSE "apply"

\* A callback that leaves the polling task as it is.
blockCommittedNoPolling(n, nd, sb, r, v, view) ==
    IF v.err THEN [nd EXCEPT !.cache = r.cache]
    ELSE notify([nd EXCEPT !.cache   = r.cache,
                           !.st      = v.st,
                           !.hb      = TRUE,
                           !.vc      = IF vcStarted(nd.vc) /\ view THEN vcDone(nd.vc)
                                       ELSE vcStart(vcStop(nd.vc)),
                           !.last    = [id |-> sb.id, index |-> sb.index, body |-> sb.body,
                                        scs |-> r.states, pre |-> nd.st.data,
                                        post |-> v.st.data, accPre |-> nd.acc],
                           !.applied = Append(@, [index |-> sb.index, view |-> view,
                                                  id |-> sb.id]),
                           !.acc     = @ \cup AcceptedTxs(sb.body),
                           !.dup     = @ \/ RepeatsPair(nd.acc, sb.body)], sb)

\* A callback that starts a polling task whenever the node is the leader,
\* without looking for the channel of a task that runs.
pollingUpdatedUnchecked(nd, nodeIsLeader) ==
    IF nodeIsLeader THEN [nd EXCEPT !.polling = TRUE, !.tasks = @ + 1]
    ELSE IF nd.polling THEN [nd EXCEPT !.polling = FALSE, !.tasks = @ - 1]
    ELSE nd

\* The callback, the update of the polling: polling says that pollChan
\* has a channel for the chain, tasks is the number of polling tasks that
\* were started and whose channel was not closed.  A leader without a
\* channel starts a task; the channel of a node that is not the leader is
\* closed and deleted.
pollingUpdated(nd, nodeIsLeader) ==
    IF nodeIsLeader
    THEN IF nd.polling THEN nd ELSE [nd EXCEPT !.polling = TRUE, !.tasks = @ + 1]
    ELSE IF nd.polling THEN [nd EXCEPT !.polling = FALSE, !.tasks = @ - 1]
    ELSE nd

\* The callback after the verified commit v of the state changes r: on
\* an error it returns; else the polling task, the heartbeat and the
\* view-change monitor follow the new configuration.
blockCommitted(n, nd, sb, r, v, view) ==
    IF v.err THEN [nd EXCEPT !.cache = r.cache]
    ELSE notify([pollingUpdated(nd, LeaderOf(v.st.data) = n)
                    EXCEPT !.cache   = r.cache,
                           !.st      = v.st,
                           !.hb      = TRUE,
                           !.vc      = IF vcStarted(nd.vc) /\ view THEN vcDone(nd.vc)
                                       ELSE vcStart(vcStop(nd.vc)),
                           !.last    = [id |-> sb.id, index |-> sb.index, body |-> sb.body,
                                        scs |-> r.states, pre |-> nd.st.data,
                                        post |-> v.st.data, accPre |-> nd.acc],
                           !.applied = Append(@, [index |-> sb.index, view |-> view,
                                                  id |-> sb.id]),
                           !.acc     = @ \cup AcceptedTxs(sb.body),
                           !.dup     = @ \/ RepeatsPair(nd.acc, sb.body)], sb)

\* The callback after createStateChanges returned r.
changesCreated(n, nd, sb, r) ==
    blockCommitted(n, nd, sb, r, VerifiedStoreAll(nd.st, r.states, sb.index, sb.root),
                   isViewChangeTx(sb.body))

\* The callback from the execution of the body on.
commitBlock(n, nd, sb) ==
    changesCreated(n, nd, sb, createStateChanges(nd.cache, nd.st.data, sb.body, noTimeout, 0))

\* A callback that notifies for a block it refuses.
trieLoadedNotifyRefused(n, nd, sb, chk) ==
    IF ~nd.st.exists THEN nd
    ELSE IF chk = "refuse" THEN notify(nd, sb)
    ELSE IF chk = "gap"
    THEN IF nd.catchingUp THEN nd
         ELSE [nd EXCEPT !.catchingUp = TRUE, !.cuTarget = sb.id]
    ELSE commitBlock(n, nd, sb)

\* A callback that starts a catch-up for every block after a gap.
trieLoadedGapRestarts(n, nd, sb, chk) ==
    IF ~nd.st.exists THEN nd
    ELSE IF chk = "refuse" THEN nd
    ELSE IF chk = "gap" THEN [nd EXCEPT !.catchingUp = TRUE, !.cuTarget = sb.id]
    ELSE commitBlock(n, nd, sb)

\* The callback from the loading of the trie on.
trieLoaded(n, nd, sb, chk) ==
    IF ~nd.st.exists THEN nd
    ELSE IF chk = "refuse" THEN nd
    ELSE IF chk = "gap"
    THEN IF nd.catchingUp THEN nd
         ELSE [nd EXCEPT !.catchingUp = TRUE, !.cuTarget = sb.id]
    ELSE commitBlock(n, nd, sb)

\* The callback from the creation of the trie of a genesis block on.
forNewBlock(n, nd, sb) == trieLoaded(n, nd, sb, indexCheck(sb.index, GetIndex(nd.st)))

\* A callback that does not look at the close flag.
updateTrieCallbackWhenClosed(n, nd, sb) ==
    IF hasForwardLink(nd.db, sb.id) /\ ~nd.catchingUp /\ sb.index # 0 THEN nd
    ELSE forNewBlock(n, IF sb.index = 0 /\ ~hasStateTrie(nd) THEN [nd EXCEPT !.st = newStateTrie]
                        ELSE nd, sb)

updateTrieCallback(n, nd, sb) ==
    IF nd.closed THEN nd
    ELSE IF hasForwardLink(nd.db, sb.id) /\ ~nd.catchingUp /\ sb.index # 0 THEN nd
    ELSE forNewBlock(n, IF sb.index = 0 /\ ~hasStateTrie(nd) THEN [nd EXCEPT !.st = newStateTrie]
                        ELSE nd, sb)

\* db().StoreBlocks: every block is stored, then the callback runs for it.
RECURSIVE StoreBlocks(_, _, _)
StoreBlocks(n, nd, ids) ==
    IF ids = <<>> THEN nd
    ELSE StoreBlocks(n, updateTrieCallback(n, [nd EXCEPT !.db = @ \cup {Head(ids)}],
                                           store[Head(ids)]),
                     Tail(ids))

(***************************************************************************)
(* The proposals and the votes of the verifiers.                           *)
(***************************************************************************)
NoVote == [cast |-> FALSE, ok |-> FALSE, waiting |-> FALSE, rest |-> FALSE,
           executed |-> FALSE, pre |-> EmptyTrie, mtr |-> NilRoot, txOut |-> <<>>,
           scs |-> <<>>]

Proposal(sb, txIn, pre) ==
    [sb |-> sb, txIn |-> txIn, pre |-> pre, votes |-> [n \in Nodes |-> NoVote]]

\* db().GetLatestByID: a block of the database with the highest index.
IsLatest(db, id) == id \in db /\ \A c \in db : store[c].index <= store[id].index

Stored(id) == [index |-> store[id].index, id |-> id]

(***************************************************************************)
(* The operations.                                                         *)
(***************************************************************************)
\* The hand-over of the block b of createNewBlock to the skipchain by
\* node n; txIn and sst are remembered with the proposal.
proposeBuiltOn(nodes, n, txIn, sst, b) ==
    /\ node' = [nodes EXCEPT ![n].cache = b.cache]
    /\ proposals' = IF b.err THEN proposals
                    ELSE proposals \cup {Proposal(b.sb, txIn, sst)}

proposeBuilt(n, txIn, sst, b) == proposeBuiltOn(node, n, txIn, sst, b)

\* The CreateGenesisBlock request served by node n: the genesis block is
\* built on a throwaway staging trie and handed to the skipchain.
CreateGenesisBlock(n) ==
    /\ store = <<>>
    /\ proposals = {}
    /\ proposals' = {Proposal(createNewBlock(<<>>, EmptyTrie, NoBlock,
                                             NewTxResults(<<GenesisTx>>)).sb,
                              <<GenesisTx>>, EmptyTrie)}
    /\ UNCHANGED <<node, store, rounds, storeVars>>

\* The polling task of node n after the planning plan of the collected
\* transactions: createNewBlock builds the block from what was planned.
proposePlanned(n, txIn, sst, sbLatest, plan) ==
    proposeBuilt(n, txIn, sst, createNewBlock(plan.cache, sst, sbLatest, plan.txOut))

\* One round of the polling task of node n: the collected transactions
\* txIn are planned within the block interval (budget transactions are
\* executed before the deadline), then createNewBlock builds the block on
\* the committed trie and proposes it.
ProposeBlock(n, txIn, budget) ==
    /\ node[n].polling
    /\ node[n].st.exists
    /\ Cardinality(proposals) < MaxProposals
    /\ rounds < MaxRounds
    /\ rounds' = rounds + 1
    /\ \E id \in node[n].db :
        /\ IsLatest(node[n].db, id)
        /\ store[id].index + 1 < MaxBlocks
        /\ proposePlanned(n, txIn, node[n].st.data, Stored(id),
                          createStateChanges(node[n].cache, node[n].st.data,
                                             NewTxResults(txIn), 1, budget))
    /\ UNCHANGED <<store, storeVars>>

\* sendNewView on node n, which waits for a view change: the new-view
\* transaction is proposed in a block of its own.
ProposeViewChange(n) ==
    /\ vcWaiting(node[n].vc)
    /\ node[n].st.exists
    /\ Cardinality(proposals) < MaxProposals
    /\ rounds < MaxRounds
    /\ rounds' = rounds + 1
    /\ \E id \in node[n].db :
        /\ IsLatest(node[n].db, id)
        /\ store[id].index + 1 < MaxBlocks
        /\ proposeBuilt(n, <<TxViewChange>>, node[n].st.data,
                        createNewBlock(node[n].cache, node[n].st.data, Stored(id),
                                       NewTxResults(<<TxViewChange>>)))
    /\ UNCHANGED <<store, storeVars>>

\* The vote of node n on the proposal p after verifySkipBlock returned v;
\* rest tells what the checks other than the view-change check say.
Vote(n, p, v, rest) ==
    [cast |-> TRUE, ok |-> v.ok, waiting |-> vcWaiting(node[n].vc), rest |-> rest,
     executed |-> v.executed,
     pre |-> IF p.sb.index = 0 THEN EmptyTrie ELSE node[n].st.data,
     mtr |-> v.mtr, txOut |-> v.txOut, scs |-> v.scs]

voteCast(n, p, v, rest) ==
    /\ node' = [node EXCEPT ![n].cache = v.cache]
    /\ proposals' = (proposals \ {p}) \cup {[p EXCEPT !.votes[n] = Vote(n, p, v, rest)]}

\* The skipchain asks node n to verify the proposed block.
VerifyBlock(n, p) ==
    /\ p \in proposals
    /\ ~p.votes[n].cast
    /\ p.sb.prev = 0 \/ p.sb.prev \in node[n].db
    /\ voteCast(n, p, verifySkipBlock(node[n], p.sb),
                headerCheck(p.sb) /\ executionCheck(node[n], p.sb).ok)
    /\ UNCHANGED <<store, rounds, storeVars>>

\* The roster has more conodes than the two under study: with the votes of
\* the others, the vote of one of these two completes the quorum.
Signed(p) == \E n \in Nodes : p.votes[n].cast /\ p.votes[n].ok

\* The block of a proposal with a quorum of votes is signed and stored.
StoreBlock(p) ==
    /\ p \in proposals
    /\ Signed(p)
    /\ Len(store) < MaxBlocks
    /\ \A c \in 1..Len(store) : store[c].prev # p.sb.prev
    /\ store' = Append(store, p.sb @@ [id |-> Len(store) + 1])
    /\ proposals' = proposals \ {p}
    /\ UNCHANGED <<node, rounds, storeVars>>

\* The signing round of a proposal fails or times out.
DropProposal(p) ==
    /\ p \in proposals
    /\ proposals' = proposals \ {p}
    /\ UNCHANGED <<node, store, rounds, storeVars>>

\* The skipchain of node n stores a signed block and runs the callback.
ReceiveBlock(n, id) ==
    /\ id \in 1..Len(store)
    /\ id \notin node[n].db
    /\ node' = [node EXCEPT ![n] = StoreBlocks(n, node[n], <<id>>)]
    /\ UNCHANGED <<store, proposals, rounds, storeVars>>

\* The callback runs again for a block of the database (a forward link
\* was updated, or the block was propagated once more).
CallbackAgain(n, id) ==
    /\ id \in node[n].db
    /\ node' = [node EXCEPT ![n] = updateTrieCallback(n, node[n], store[id])]
    /\ UNCHANGED <<store, proposals, rounds, storeVars>>

\* monitorLeaderFailure: the heartbeat monitor of node n times out.  A node
\* that polls beats its own monitor with every collection round.
HeartbeatTimeout(n) ==
    /\ node[n].hb
    /\ ~node[n].polling
    /\ node[n].db # {}
    /\ node' = [node EXCEPT ![n].vc = vcAddReq(node[n].vc)]
    /\ UNCHANGED <<store, proposals, rounds, storeVars>>

\* The blocks from index from up to the block id, following the backward
\* links.
RECURSIVE ChainTo(_, _)
ChainTo(id, from) ==
    IF id = 0 \/ store[id].index < from THEN <<>>
    ELSE Append(ChainTo(store[id].prev, from), id)

\* The block the level-1 forward link of the block id points to (0: none).
Succ(id) ==
    IF \E c \in 1..Len(store) : store[c].prev = id
    THEN CHOOSE c \in 1..Len(store) :
            /\ store[c].prev = id
            /\ \A d \in 1..Len(store) : store[d].prev = id => c <= d
    ELSE 0

\* GetUpdateChainLevel(roster, latest, 1, max): the chain from the block
\* latest on along the level-1 forward links, at most max blocks.
RECURSIVE GetUpdateChainLevel(_, _)
GetUpdateChainLevel(latest, max) ==
    IF max <= 1 \/ Succ(latest) = 0 THEN <<latest>>
    ELSE <<latest>> \o GetUpdateChainLevel(Succ(latest), max - 1)

\* The local GetSingleBlockByIndex for the index of the trie: the block the
\* node applied last, or else a block of that index of its database (0:
\* no such block).
latestProcessed(nd) ==
    IF nd.last.id \in nd.db /\ nd.last.index = GetIndex(nd.st) THEN nd.last.id
    ELSE IF \E c \in nd.db : store[c].index = GetIndex(nd.st)
    THEN CHOOSE c \in nd.db : /\ store[c].index = GetIndex(nd.st)
                              /\ \A d \in nd.db : store[d].index = GetIndex(nd.st) => c <= d
    ELSE 0

\* The deferred end of catchUp.
catchUpDone(nd) == [nd EXCEPT !.catchingUp = FALSE, !.cuTarget = 0, !.cuLatest = 0]

\* A round of the loop that pulls every missing block at once, whatever
\* their number.
pulledUnchunked(n, nd, target, latest, max) ==
    IF latest = 0 THEN catchUpDone(nd)
    ELSE IF store[latest].index >= store[target].index THEN catchUpDone(nd)
    ELSE catchUpDone(StoreBlocks(n, nd, GetUpdateChainLevel(latest, MaxChain)))

\* One round of the loop of catchUp for the reference block target, with
\* latest the last block pulled so far: the next chunk goes to StoreBlocks
\* and its last block is the new latest; the loop ends when the index of
\* latest has reached the index of the reference block.
pulled(n, nd, target, latest, max) ==
    IF latest = 0 THEN catchUpDone(nd)
    ELSE IF store[latest].index >= store[target].index THEN catchUpDone(nd)
    ELSE LET updates == GetUpdateChainLevel(latest, max)
             nd2     == StoreBlocks(n, nd, updates)
         IN IF store[Last(updates)].index >= store[target].index THEN catchUpDone(nd2)
            ELSE [nd2 EXCEPT !.cuLatest = Last(updates)]

\* catchUp(sb) of node n for the reference block sb = cuTarget, one round
\* of its loop at a time: the missing blocks are pulled from the roster in
\* chunks and fed to StoreBlocks.
\* A catchUp that downloads from a gap of catchupDownloadAll on.
downloadFromThreshold(exists, sbIndex, trieIndex) ==
    ~exists \/ sbIndex - trieIndex >= catchupDownloadAll

\* catchUp, the local variable download: the trie cannot be loaded, or the
\* reference block is more than catchupDownloadAll blocks ahead of it.
download(exists, sbIndex, trieIndex) ==
    ~exists \/ sbIndex - trieIndex > catchupDownloadAll

catchUp(n) ==
    /\ node[n].catchingUp
    /\ node[n].cuTarget # 0
    /\ ~download(node[n].st.exists, store[node[n].cuTarget].index, GetIndex(node[n].st))
    /\ node' = [node EXCEPT ![n] =
                    pulled(n, node[n], node[n].cuTarget,
                           IF node[n].cuLatest # 0 THEN node[n].cuLatest
                           ELSE latestProcessed(node[n]), catchupFetchBlocks)]
    /\ UNCHANGED <<store, proposals, rounds, storeVars>>

\* catchUp gives up: the roster could not be reached.
catchUpFailed(n) ==
    /\ node[n].catchingUp
    /\ node[n].cuTarget # 0
    /\ node' = [node EXCEPT ![n] = catchUpDone(node[n])]
    /\ UNCHANGED <<store, proposals, rounds, storeVars>>

\* The block is signed and stored although the block it is linked to
\* already has a successor.
StoreBlockFork(p) ==
    /\ p \in proposals
    /\ Signed(p)
    /\ Len(store) < MaxBlocks
    /\ store' = Append(store, p.sb @@ [id |-> Len(store) + 1])
    /\ proposals' = proposals \ {p}
    /\ UNCHANGED <<node, rounds, storeVars>>

(***************************************************************************)
(* The read-only queries.                                                  *)
(***************************************************************************)
\* GetSignerCounters: the counters of the identities ids in the trie of
\* the node.
GetSignerCounters(nd, ids) ==
    [i \in 1..Len(ids) |-> getSignerCounter(nd.st.data, ids[i])]

(***************************************************************************)
(* AddTransaction.                                                         *)
(***************************************************************************)
\* The checks of the request on node n: the error of the first check that
\* fails, "ok" if none does.
checkRequest(n, nd, req) ==
    IF req.version # CurrentVersion THEN "version"
    ELSE IF Len(req.tx) = 0 THEN "empty"
    ELSE IF req.chain = UnknownChainID
            \/ (req.chain = ChainID /\ ~\E id \in nd.db : store[id].index = 0)
    THEN "unknown"
    ELSE IF req.chain = OtherChainID \/ ~\E i \in 1..Len(Roster) : Roster[i] = n
    THEN "roster"
    ELSE IF txSize(req.tx) > MaxBlockSize THEN "large"
    ELSE "ok"

CheckErrors == {"version", "empty", "unknown", "roster", "large"}

\* txBuffer.add.
bufferAdd(nd, tx) == [nd EXCEPT !.buf = Append(@, tx)]

\* The handler c returns res; the deferred calls unregister its channels.
returned(nd, c, res) ==
    [deleteWaitChannel(unregisterForBlocks(nd, c), InstructionsHash(nd.calls[c].req.tx))
        EXCEPT !.calls[c].pc = "returned", !.calls[c].res = res]

\* The transaction of handler c was accepted in one of the InclusionWait
\* blocks the node applied after the handler registered.
AcceptedWithin(nd, c) ==
    \E i \in (nd.calls[c].base + 1)..(nd.calls[c].base + nd.calls[c].req.wait) :
        /\ i <= Len(nd.applied)
        /\ nd.calls[c].req.tx \in AcceptedTxs(store[nd.applied[i].id].body)

\* A handler that buffers the transaction before it looks at the checks.
requestCheckedBuffers(nd, c, req, e) ==
    IF e # "ok"
    THEN [bufferAdd(nd, req.tx)
            EXCEPT !.calls[c].pc = "returned", !.calls[c].res = e, !.calls[c].req = req]
    ELSE IF req.wait > 0
    THEN [createWaitChannel(nd, InstructionsHash(req.tx), c)
            EXCEPT !.calls[c].pc = "created", !.calls[c].req = req]
    ELSE [bufferAdd(nd, req.tx)
            EXCEPT !.calls[c].pc = "returned", !.calls[c].res = "ok", !.calls[c].req = req]

\* The handler after the checks of the request said e: an error ends it,
\* a request without inclusion wait is buffered and answered, a request
\* with inclusion wait creates its wait channel.
requestChecked(nd, c, req, e) ==
    IF e # "ok"
    THEN [nd EXCEPT !.calls[c].pc = "returned", !.calls[c].res = e, !.calls[c].req = req]
    ELSE IF req.wait > 0
    THEN [createWaitChannel(nd, InstructionsHash(req.tx), c)
            EXCEPT !.calls[c].pc = "created", !.calls[c].req = req]
    ELSE [bufferAdd(nd, req.tx)
            EXCEPT !.calls[c].pc = "returned", !.calls[c].res = "ok", !.calls[c].req = req]

\* The request req reaches node n and is served by the handler c, up to
\* createWaitChannel.
AddTransaction(n, c, req) ==
    /\ node[n].calls[c].pc = "idle"
    /\ Len(node[n].buf) < MaxBuffer
    /\ node' = [node EXCEPT ![n] = requestChecked(node[n], c, req,
                                                   checkRequest(n, node[n], req))]
    /\ UNCHANGED <<store, proposals, rounds, storeVars>>

\* The handler registers its block channel.
RegisterForBlocks(n, c) ==
    /\ node[n].calls[c].pc = "created"
    /\ node' = [node EXCEPT ![n] = [registerForBlocks(node[n], c)
                                      EXCEPT !.calls[c].pc = "registered",
                                             !.calls[c].base = Len(node[n].applied)]]
    /\ UNCHANGED <<store, proposals, rounds, storeVars>>

\* The handler puts the transaction into the buffer, starts the timer and
\* enters the loop.
BufferAdd(n, c) ==
    /\ node[n].calls[c].pc = "registered"
    /\ node' = [node EXCEPT ![n] = [bufferAdd(node[n], node[n].calls[c].req.tx)
                                      EXCEPT !.calls[c].pc = "waiting",
                                             !.calls[c].blocksLeft = node[n].calls[c].req.wait]]
    /\ UNCHANGED <<store, proposals, rounds, storeVars>>

\* What the handler c returns with; hit is taken when it returns.
Returns(n, c, res) ==
    node' = [node EXCEPT ![n] = [returned(node[n], c, res)
                                  EXCEPT !.calls[c].hit = AcceptedWithin(node[n], c)]]

\* select: case success := <-ch.
RecvWaitChannel(n, c) ==
    /\ node[n].calls[c].pc = "waiting"
    /\ node[n].calls[c].ch # <<>>
    /\ Returns(n, c, IF Head(node[n].calls[c].ch) THEN "ok" ELSE "refused")
    /\ UNCHANGED <<store, proposals, rounds, storeVars>>

\* A count of the blocks of all the chains.
blocksLeftAfterAnyChain(handler, id) == handler.blocksLeft - 1

\* blocksLeft after the block id was received.
blocksLeftAfter(handler, id) ==
    IF id = handler.req.chain THEN handler.blocksLeft - 1 ELSE handler.blocksLeft

\* select: case id := <-blockCh.
RecvBlockChannel(n, c) ==
    /\ node[n].calls[c].pc = "waiting"
    /\ node[n].calls[c].blockCh # <<>>
    /\ IF blocksLeftAfter(node[n].calls[c], Head(node[n].calls[c].blockCh)) = 0
       THEN Returns(n, c, "blocks")
       ELSE node' = [node EXCEPT
                ![n].calls[c].blocksLeft =
                    blocksLeftAfter(node[n].calls[c], Head(node[n].calls[c].blockCh)),
                ![n].calls[c].blockCh = Tail(@),
                ![n].calls[c].others =
                    @ \/ Head(node[n].calls[c].blockCh) # node[n].calls[c].req.chain]
    /\ UNCHANGED <<store, proposals, rounds, storeVars>>

\* select: case <-tooLong, the timer of 2 * InclusionWait * interval has
\* fired.
RecvTooLong(n, c) ==
    /\ node[n].calls[c].pc = "waiting"
    /\ Returns(n, c, "timeout")
    /\ UNCHANGED <<store, proposals, rounds, storeVars>>

\* The callback of node n for a block of another chain.
OtherChainBlock(n) ==
    /\ \E c \in Calls : node[n].calls[c].sub
    /\ \A c \in Calls : \A i \in 1..Len(node[n].calls[c].blockCh) :
            node[n].calls[c].blockCh[i] # OtherChainID
    /\ node' = [node EXCEPT ![n] = informBlock(node[n], OtherChainID)]
    /\ UNCHANGED <<store, proposals, rounds, storeVars>>

\* getTxs of node m for a collection round of the leader n, whose latest
\* block is id: the buffer is taken if m knows the block and the leader.
takes(m, n, id) ==
    /\ id \in node[m].db
    /\ node[m].st.exists
    /\ LeaderOf(node[m].st.data) = n

getTxs(m, n, id) == IF takes(m, n, id) THEN node[m].buf ELSE <<>>

\* The transactions the round collects from the nodes ms.
RECURSIVE collectTx(_, _, _)
collectTx(ms, n, id) ==
    IF ms = <<>> THEN <<>>
    ELSE getTxs(Head(ms), n, id) \o collectTx(Tail(ms), n, id)

\* The nodes after the round has collected.
collected(n, id) ==
    [m \in Nodes |-> IF takes(m, n, id) THEN [node[m] EXCEPT !.buf = <<>>] ELSE node[m]]

\* One round of the polling task of the leader n with the transactions
\* of the buffers of the nodes.
CollectAndPropose(n) ==
    /\ node[n].polling
    /\ node[n].st.exists
    /\ Cardinality(proposals) < MaxProposals
    /\ rounds < MaxRounds
    /\ rounds' = rounds + 1
    /\ \E id \in node[n].db :
        /\ IsLatest(node[n].db, id)
        /\ store[id].index + 1 < MaxBlocks
        /\ collectTx(Roster, n, id) # <<>>
        /\ proposeBuiltOn(collected(n, id), n, collectTx(Roster, n, id), node[n].st.data,
                          createNewBlock(
                              createStateChanges(node[n].cache, node[n].st.data,
                                                 NewTxResults(collectTx(Roster, n, id)),
                                                 1, MaxBudget).cache,
                              node[n].st.data, Stored(id),
                              createStateChanges(node[n].cache, node[n].st.data,
                                                 NewTxResults(collectTx(Roster, n, id)),
                                                 1, MaxBudget).txOut))
    /\ UNCHANGED <<store, storeVars>>

\* The lists of transactions of the protocol runs.
FewBatches == {<<TxSpawn>>, <<TxBadSig>>}

Next ==
    \/ \E n \in Nodes : CreateGenesisBlock(n)
    \/ \E n \in Nodes, txIn \in FewBatches : ProposeBlock(n, txIn, 1)
    \/ \E n \in Nodes : ProposeViewChange(n)
    \/ \E n \in Nodes, p \in proposals : VerifyBlock(n, p)
    \/ \E p \in proposals : StoreBlock(p)
    \/ \E p \in proposals : DropProposal(p)
    \/ \E n \in Nodes, id \in 1..Len(store) : ReceiveBlock(n, id)
    \/ \E n \in Nodes, id \in 1..Len(store) : CallbackAgain(n, id)
    \/ \E n \in Nodes : HeartbeatTimeout(n)
    \/ \E n \in Nodes : catchUp(n)
    \/ \E n \in Nodes : catchUpFailed(n)

Spec == Init /\ [][Next]_vars

\* The same system on a skipchain that may sign two blocks linked to the
\* same block.
NextFork ==
    \/ \E n \in Nodes : CreateGenesisBlock(n)
    \/ \E n \in Nodes, txIn \in FewBatches : ProposeBlock(n, txIn, 1)
    \/ \E n \in Nodes : ProposeViewChange(n)
    \/ \E n \in Nodes, p \in proposals : VerifyBlock(n, p)
    \/ \E p \in proposals : StoreBlockFork(p)
    \/ \E p \in proposals : DropProposal(p)
    \/ \E n \in Nodes, id \in 1..Len(store) : ReceiveBlock(n, id)
    \/ \E n \in Nodes, id \in 1..Len(store) : CallbackAgain(n, id)
    \/ \E n \in Nodes : HeartbeatTimeout(n)
    \/ \E n \in Nodes : catchUp(n)
    \/ \E n \in Nodes : catchUpFailed(n)

SpecFork == Init /\ [][NextFork]_vars

\* The votes of all the nodes on the proposal p, given the results vs of
\* verifySkipBlock on each node.
votesCast(p, vs) ==
    /\ node' = [n \in Nodes |-> [node[n] EXCEPT !.cache = vs[n].cache]]
    /\ proposals' = (proposals \ {p})
                    \cup {[p EXCEPT !.votes = [n \in Nodes |-> Vote(n, p, vs[n], vs[n].ok)]]}

\* The signing round of the proposal p reaches all the nodes: each of them
\* runs verifySkipBlock.
VerifyRound(p) ==
    /\ p \in proposals
    /\ \A n \in Nodes : ~p.votes[n].cast
    /\ \A n \in Nodes : p.sb.prev = 0 \/ p.sb.prev \in node[n].db
    /\ votesCast(p, [n \in Nodes |-> verifySkipBlock(node[n], p.sb)])
    /\ UNCHANGED <<store, rounds, storeVars>>

\* The signed block id is propagated: the skipchain of every node stores
\* it and runs the callback.
PropagateBlock(id) ==
    /\ id \in 1..Len(store)
    /\ \A n \in Nodes : id \notin node[n].db
    /\ \A n \in Nodes : store[id].prev = 0 \/ store[id].prev \in node[n].db
    /\ node' = [n \in Nodes |-> StoreBlocks(n, node[n], <<id>>)]
    /\ UNCHANGED <<store, proposals, rounds, storeVars>>

\* The system without leader failures, with all the client transactions
\* and with planning deadlines; the signing rounds and the propagation
\* reach all the nodes at once: the study of the execution of blocks.
NextExec ==
    \/ \E n \in Nodes : CreateGenesisBlock(n)
    \/ \E n \in Nodes, txIn \in Batches, budget \in 1..MaxBudget : ProposeBlock(n, txIn, budget)
    \/ \E p \in proposals : VerifyRound(p)
    \/ \E p \in proposals : StoreBlock(p)
    \/ \E p \in proposals : DropProposal(p)
    \/ \E id \in 1..Len(store) : PropagateBlock(id)

SpecExec == Init /\ [][NextExec]_vars

(***************************************************************************)
(* The failure of the leader: the polling task of Roster[1] has stopped    *)
(* after the genesis block; the node still verifies and stores blocks.     *)
(* The other nodes stay connected: signing rounds end, blocks are          *)
(* propagated and the catch-up gets its answers.                           *)
(***************************************************************************)
Followers == Nodes \ {Roster[1]}

\* No collect-tx round of the leader beats the heartbeat of node n: the
\* leader n knows is the node that stopped.
LeaderSilent(n) == node[n].st.exists /\ LeaderOf(node[n].st.data) = Roster[1]

\* The skipchain refuses to sign the block of p: a block is already linked
\* to the block it is built on.
Stale(p) == \E c \in 1..Len(store) : store[c].prev = p.sb.prev

\* The view-change manager of node n sends one new-view request per view:
\* the view is the latest block, no view-change block follows it yet and
\* none is proposed.
NewViewDue(n) ==
    /\ \A id \in node[n].db : \A c \in 1..Len(store) :
            IsLatest(node[n].db, id) /\ store[c].prev = id => ~isViewChangeTx(store[c].body)
    /\ \A p \in proposals : ~isViewChangeTx(p.sb.body)

NextLive ==
    \/ CreateGenesisBlock(Roster[1])
    \/ \E n \in Followers, txIn \in FewBatches : ProposeBlock(n, txIn, 1)
    \/ \E n \in Followers : LeaderSilent(n) /\ HeartbeatTimeout(n)
    \/ \E n \in Followers : NewViewDue(n) /\ ProposeViewChange(n)
    \/ \E n \in Nodes, p \in proposals : VerifyBlock(n, p)
    \/ \E p \in proposals : StoreBlock(p)
    \/ \E p \in proposals : Stale(p) /\ DropProposal(p)
    \/ \E n \in Nodes, id \in 1..Len(store) : ReceiveBlock(n, id)
    \/ \E n \in Nodes : catchUp(n)

\* The states in which a step of the operation is possible and changes the
\* state.
CanPropose(n) ==
    /\ node[n].st.exists
    /\ Cardinality(proposals) < MaxProposals
    /\ rounds < MaxRounds
    /\ \E id \in node[n].db : IsLatest(node[n].db, id) /\ store[id].index + 1 < MaxBlocks

CanTimeOut(n) ==
    /\ LeaderSilent(n)
    /\ node[n].hb
    /\ ~node[n].polling
    /\ node[n].db # {}
    /\ vcAddReq(node[n].vc) # node[n].vc

CanVerify(n) ==
    \E p \in proposals : ~p.votes[n].cast /\ (p.sb.prev = 0 \/ p.sb.prev \in node[n].db)

CanReceive(n) == \E id \in 1..Len(store) : id \notin node[n].db

CanCatchUp(n) ==
    /\ node[n].catchingUp
    /\ node[n].cuTarget # 0
    /\ node[n].st.exists
    /\ store[node[n].cuTarget].index - GetIndex(node[n].st) <= catchupDownloadAll

\* What tells the steps of an operation of node n from the other steps.
Proposes == rounds' # rounds
Votes(n) == \E p \in proposals : \E q \in proposals' : ~p.votes[n].cast /\ q.votes[n].cast
Receives(n) == node'[n].db # node[n].db /\ ~node[n].catchingUp
CaughtUp(n) == node[n].catchingUp /\ ~node'[n].catchingUp

\* The timers fire, the tasks of the live nodes run and the messages
\* between connected nodes arrive: weak fairness of every operation.  For
\* the operations that run the callback or build a block, WF_vars(A) is
\* written out as []<>~ENABLED <<A>>_vars \/ []<><<A>>_vars with the
\* enabling condition spelled out.
FairLive ==
    /\ WF_vars(\E p \in proposals : StoreBlock(p))
    /\ WF_vars(\E p \in proposals : Stale(p) /\ DropProposal(p))
    /\ \/ []<>~(store = <<>> /\ proposals = {})
       \/ []<><<proposals = {} /\ CreateGenesisBlock(Roster[1])>>_vars
    /\ \A n \in Followers :
        /\ \/ []<>~(node[n].polling /\ CanPropose(n))
           \/ []<><<Proposes /\ \E txIn \in FewBatches : ProposeBlock(n, txIn, 1)>>_vars
        /\ \/ []<>~CanTimeOut(n)
           \/ []<><<LeaderSilent(n) /\ HeartbeatTimeout(n)>>_vars
        /\ \/ []<>~(vcWaiting(node[n].vc) /\ NewViewDue(n) /\ CanPropose(n))
           \/ []<><<Proposes /\ NewViewDue(n) /\ ProposeViewChange(n)>>_vars
    /\ \A n \in Nodes :
        /\ \/ []<>~CanVerify(n)
           \/ []<><<Votes(n) /\ \E p \in proposals : VerifyBlock(n, p)>>_vars
        /\ \/ []<>~CanReceive(n)
           \/ []<><<Receives(n) /\ \E id \in 1..Len(store) : ReceiveBlock(n, id)>>_vars
        /\ \/ []<>~CanCatchUp(n)
           \/ []<><<CaughtUp(n) /\ catchUp(n)>>_vars

SpecLive == Init /\ [][NextLive]_vars /\ FairLive

(***************************************************************************)
(* The clients: AddTransaction requests reach the nodes, the leader        *)
(* collects the buffers, the blocks are signed and the callbacks of the    *)
(* nodes run in any order.                                                 *)
(***************************************************************************)
\* The requests of the clients that wait for the inclusion, and one
\* request for each check that fails.
WaitRequests ==
    {AddTxRequest(CurrentVersion, ChainID, tx, w) : tx \in {TxSpawn, TxBadSig}, w \in 1..MaxWait}
    \cup {AddTxRequest(0, ChainID, TxSpawn, 1),
          AddTxRequest(CurrentVersion, ChainID, <<>>, 1),
          AddTxRequest(CurrentVersion, UnknownChainID, TxSpawn, 1),
          AddTxRequest(CurrentVersion, OtherChainID, TxSpawn, 1),
          AddTxRequest(CurrentVersion, ChainID, TxLarge, 1)}

\* The requests of the clients that do not wait.
NoWaitRequests == {AddTxRequest(CurrentVersion, ChainID, TxRenew, 0)}

\* The requests the handler c of node n serves: the clients that wait
\* talk to Roster[2], the other clients to the leader.
Requests(n, c) ==
    IF n = Roster[2] /\ c = 1 THEN WaitRequests
    ELSE IF n = Roster[1] /\ c = 2 THEN NoWaitRequests
    ELSE {}

\* The handler c of node n has returned and serves the next request.
NextRequest(n, c) ==
    /\ node[n].calls[c].pc = "returned"
    /\ node[n].calls[c].req.wait = 0 \/ node[n].calls[c].res \in CheckErrors
    /\ node' = [node EXCEPT ![n].calls[c] = IdleCall]
    /\ UNCHANGED <<store, proposals, rounds, storeVars>>

NextTx ==
    \/ CreateGenesisBlock(Roster[1])
    \/ \E n \in Nodes, c \in Calls : \E req \in Requests(n, c) : AddTransaction(n, c, req)
    \/ \E n \in Nodes, c \in Calls : NextRequest(n, c)
    \/ \E n \in Nodes, c \in Calls : RegisterForBlocks(n, c)
    \/ \E n \in Nodes, c \in Calls : BufferAdd(n, c)
    \/ \E n \in Nodes, c \in Calls : RecvWaitChannel(n, c)
    \/ \E n \in Nodes, c \in Calls : RecvBlockChannel(n, c)
    \/ \E n \in Nodes, c \in Calls : RecvTooLong(n, c)
    \/ \E n \in Nodes : OtherChainBlock(n)
    \/ \E n \in Nodes : CollectAndPropose(n)
    \/ \E p \in proposals : VerifyBlock(Roster[1], p)
    \/ \E p \in proposals : StoreBlock(p)
    \/ \E n \in Nodes, id \in 1..Len(store) : ReceiveBlock(n, id)
    \/ \E id \in 1..Len(store) : CallbackAgain(Roster[2], id)
    \/ \E n \in Nodes : catchUp(n)

SpecTx == Init /\ [][NextTx]_vars

(***************************************************************************)
(* The state trie on its own: calls of VerifiedStoreAll.                   *)
(***************************************************************************)
\* The state changes handed to the trie.
StoreChanges ==
    {[act |-> Create, iid |-> "x", cid |-> ContractDarcID, val |-> 1, ver |-> 0],
     [act |-> Update, iid |-> "x", cid |-> ContractDarcID, val |-> 2, ver |-> 1],
     [act |-> Remove, iid |-> "x", cid |-> ContractDarcID, val |-> 0, ver |-> 2],
     [act |-> Update, iid |-> GenesisDarcID, cid |-> ContractDarcID, val |-> 1, ver |-> 1]}

ChangeLists ==
    {<<>>} \cup {<<a>> : a \in StoreChanges} \cup {<<a, b>> : a, b \in StoreChanges}

\* The roots a caller expects: the root the changes lead to, the root of
\* the trie as it is, and the root of a header without a root.
ExpectedRoots(scs) == {GetRoot(Batch(trie.data, scs)), GetRoot(trie.data), NilRoot}

storeReturned(scs, index, expectedRoot, r) ==
    /\ trie' = r.st
    /\ call' = [made |-> TRUE, pre |-> trie, scs |-> scs, index |-> index,
                expectedRoot |-> expectedRoot, err |-> r.err]

CallVerifiedStoreAll(scs, index, expectedRoot) ==
    /\ storeReturned(scs, index, expectedRoot,
                     VerifiedStoreAll(trie, scs, index, expectedRoot))
    /\ UNCHANGED <<node, store, proposals, rounds, clock>>

NextStore ==
    \E scs \in ChangeLists, index \in 0..(MaxBlocks - 1) :
        \E expectedRoot \in ExpectedRoots(scs) : CallVerifiedStoreAll(scs, index, expectedRoot)

SpecStore == Init /\ [][NextStore]_vars

(***************************************************************************)
(* Catching up: the pull of missing blocks and the download of the state.  *)
(* Roster[1] leads a chain of up to MaxChain blocks; the newest block is   *)
(* propagated to the nodes, which may miss it.                             *)
(***************************************************************************)
\* s1 evolves the genesis DARC with its counter ctr.
TxEvolve(ctr) ==
    <<Instr(GenesisDarcID, FALSE, TRUE, FALSE, ContractDarcID, "evolve", <<"s1">>, <<ctr>>,
            <<TRUE>>, <<Item(Update, GenesisDarcID, ContractDarcID, ctr)>>, FALSE, FALSE)>>

\* One round of the polling task of the leader n of the long chain, with
\* the next transaction of s1.
ProposeNext(n) ==
    /\ node[n].polling
    /\ node[n].st.exists
    /\ proposals = {}
    /\ \E id \in node[n].db :
        /\ IsLatest(node[n].db, id)
        /\ store[id].index + 1 < MaxChain
        /\ proposePlanned(n, <<TxEvolve(getSignerCounter(node[n].st.data, "s1") + 1)>>,
                          node[n].st.data, Stored(id),
                          createStateChanges(node[n].cache, node[n].st.data,
                              NewTxResults(<<TxEvolve(getSignerCounter(node[n].st.data, "s1") + 1)>>),
                              1, MaxBudget))
    /\ UNCHANGED <<store, rounds, storeVars>>

\* The block of a proposal of the long chain is signed and stored.
StoreNext(p) ==
    /\ p \in proposals
    /\ Signed(p)
    /\ Len(store) < MaxChain
    /\ \A c \in 1..Len(store) : store[c].prev # p.sb.prev
    /\ store' = Append(store, p.sb @@ [id |-> Len(store) + 1])
    /\ proposals' = proposals \ {p}
    /\ UNCHANGED <<node, rounds, storeVars>>

\* The number of conodes of the roster of the chain; the two nodes under
\* study are Roster.List[0] and Roster.List[1].
Conodes == 5

\* int(math.Ceil(math.Pow(float64(nodes), 1./3.)))
subLeaders(nodes) ==
    CHOOSE k \in 0..nodes : k * k * k >= nodes /\ \A j \in 0..(k - 1) : j * j * j < nodes

\* The conodes downloadDB asks: neither the leader nor a subleader.
Candidates(nodes) == (1 + subLeaders(nodes))..(nodes - 1)

\* What a candidate does with the DownloadState requests: it streams the
\* trie of a conode that applied the chain, it streams a trie with another
\* content, or it does not answer.
Answers == {"honest", "corrupt", "down"}
AnswerLists == [Candidates(Conodes) -> Answers]

Tamper(st) == [st EXCEPT !.data[GenesisDarcID].val = @ + 100]

served(answer) ==
    IF answer = "honest" THEN node[Roster[1]].st ELSE Tamper(node[Roster[1]].st)

\* GetSingleBlockByIndex of the remote (0: no block of this index).
BlockByIndex(index) ==
    IF \E c \in 1..Len(store) : store[c].index = index
    THEN CHOOSE c \in 1..Len(store) :
            store[c].index = index /\ \A d \in 1..Len(store) : store[d].index = index => c <= d
    ELSE 0

\* downloadDB for one candidate after its entries were put into the bucket
\* of the trie (t is the trie loadStateTrie finds there): the block of the
\* index of t is fetched if sb is not that block, and the root of t is
\* compared with its header.  getStateTrie loads whatever the bucket holds
\* when stateTries has no entry, so the trie of the node is t from the
\* moment the entries are stored.
bucketFilled(nd, sb, t) ==
    IF store[sb].index # GetIndex(t) /\ BlockByIndex(GetIndex(t)) = 0
    THEN [nd |-> [nd EXCEPT !.st = t], sb |-> sb, err |-> TRUE]
    ELSE [nd  |-> [nd EXCEPT !.st = t],
          sb  |-> IF store[sb].index # GetIndex(t) THEN BlockByIndex(GetIndex(t)) ELSE sb,
          err |-> GetRoot(t.data) #
                  store[IF store[sb].index # GetIndex(t) THEN BlockByIndex(GetIndex(t))
                        ELSE sb].root]

\* downloadDB for one candidate: the entry of stateTries is deleted (the
\* bucket that is deleted is not the one of the trie), then the entries the
\* candidate streams are stored.
downloadFrom(nd, sb, answer) ==
    IF answer = "down" \/ ~node[Roster[1]].st.exists
    THEN [nd |-> nd, sb |-> sb, err |-> TRUE]
    ELSE bucketFilled(nd, sb, served(answer))

\* The loop of downloadDB over the candidates from ri on.
RECURSIVE downloadDB(_, _, _, _, _)
downloadDB(nd, sb, answers, ri, nodes) ==
    IF ri >= nodes THEN [nd |-> nd, err |-> TRUE]
    ELSE IF ~downloadFrom(nd, sb, answers[ri]).err
    THEN [nd |-> downloadFrom(nd, sb, answers[ri]).nd, err |-> FALSE]
    ELSE downloadDB(downloadFrom(nd, sb, answers[ri]).nd, downloadFrom(nd, sb, answers[ri]).sb,
                    answers, ri + 1, nodes)

\* catchUp(sb) of node n when it has no trie or is too far behind: the
\* state is downloaded and catchUp returns, whatever downloadDB returned.
catchUpDownload(n, answers) ==
    /\ node[n].catchingUp
    /\ node[n].cuTarget # 0
    /\ download(node[n].st.exists, store[node[n].cuTarget].index, GetIndex(node[n].st))
    /\ node' = [node EXCEPT ![n] =
            catchUpDone([downloadDB(node[n], node[n].cuTarget, answers,
                                    1 + subLeaders(Conodes), Conodes).nd
                         EXCEPT !.dl = [made |-> TRUE,
                                        err  |-> downloadDB(node[n], node[n].cuTarget, answers,
                                                            1 + subLeaders(Conodes), Conodes).err]])]
    /\ UNCHANGED <<store, proposals, rounds, storeVars>>

\* catchupAll when the service of node n starts with blocks of the chain
\* in its database: the latest of them is the reference block of catchUp.
catchupAll(n) ==
    /\ ~node[n].catchingUp
    /\ \E id \in node[n].db :
        /\ IsLatest(node[n].db, id)
        /\ node' = [node EXCEPT ![n].catchingUp = TRUE, ![n].cuTarget = id]
    /\ UNCHANGED <<store, proposals, rounds, storeVars>>

\* Node n joined the chain with its genesis block and does not get the
\* blocks that are propagated while it catches up.
Joined(n, id) == ~node[n].catchingUp /\ (store[id].index = 0 \/ node[n].st.exists)

NextCatchUp ==
    \/ CreateGenesisBlock(Roster[1])
    \/ ProposeNext(Roster[1])
    \/ \E p \in proposals : VerifyBlock(Roster[1], p)
    \/ \E p \in proposals : StoreNext(p)
    \/ ReceiveBlock(Roster[1], Len(store))
    \/ \E id \in {1, Len(store)} \cap (1..Len(store)) : Joined(Roster[2], id) /\ ReceiveBlock(Roster[2], id)
    \/ catchUp(Roster[2])

SpecCatchUp == Init /\ [][NextCatchUp]_vars

\* The download of the state on a node that starts without a trie, on the
\* chain of the protocol runs.
NextDownload ==
    \/ CreateGenesisBlock(Roster[1])
    \/ \E txIn \in FewBatches : ProposeBlock(Roster[1], txIn, 1)
    \/ \E p \in proposals : VerifyBlock(Roster[1], p)
    \/ \E p \in proposals : StoreBlock(p)
    \/ \E n \in Nodes, id \in 1..Len(store) : ReceiveBlock(n, id)
    \/ catchUp(Roster[2])
    \/ catchupAll(Roster[2])
    \/ \E answers \in AnswerLists : catchUpDownload(Roster[2], answers)

SpecDownload == Init /\ [][NextDownload]_vars

(***************************************************************************)
(* The triggers of a catch-up and the time between two of them.            *)
(***************************************************************************)
\* time.Now() advances.
Tick ==
    /\ clock.now < MaxClock
    /\ clock' = [clock EXCEPT !.now = @ + TickStep]
    /\ UNCHANGED <<node, store, proposals, rounds, trie, call>>

\* The clock remembers when node n has started a catch-up in this step.
stamped(n) ==
    IF ~node[n].catchingUp /\ node'[n].catchingUp
    THEN [clock EXCEPT !.started[n] = clock.now]
    ELSE clock

\* The skipchain of node n stores a signed block and runs the callback,
\* which may start a catch-up.
ReceiveBlockAt(n, id) ==
    /\ id \in 1..Len(store)
    /\ id \notin node[n].db
    /\ node' = [node EXCEPT ![n] = StoreBlocks(n, node[n], <<id>>)]
    /\ clock' = stamped(n)
    /\ UNCHANGED <<store, proposals, rounds, trie, call>>

\* catchupFromID from the check of catchingUp on: the reference block is
\* fetched and catchUp runs for it.
historySet(nd, sbID) ==
    IF nd.catchingUp THEN nd
    ELSE [nd EXCEPT !.catchingUp = TRUE, !.cuTarget = sbID]

\* catchupFromID of a node with the state nd at the time now, history
\* being its catchingUpHistory of the chain: the node and the history
\* after catchupFromID has started catchUp or returned its error.
catchupFromID(nd, history, now, sbID) ==
    IF ~\E c \in nd.db : store[c].index = 0 THEN [nd |-> nd, history |-> history]
    ELSE IF history > now THEN [nd |-> nd, history |-> history]
    ELSE [nd |-> historySet(nd, sbID), history |-> now + catchupMinimumInterval]

\* getTxs of node m for a collection round whose latest block is id: a
\* node that does not know the block catches up and returns nothing; a
\* node that knows it and the leader hands over its buffer.
GetTxs(m, id) ==
    /\ id \in 1..Len(store)
    /\ \E n \in Nodes : node[n].polling /\ IsLatest(node[n].db, id)
    /\ IF id \notin node[m].db
       THEN /\ node' = [node EXCEPT ![m] =
                           catchupFromID(node[m], clock.history[m], clock.now, id).nd]
            /\ clock' = [stamped(m) EXCEPT !.history[m] =
                           catchupFromID(node[m], clock.history[m], clock.now, id).history]
       ELSE /\ node' = [node EXCEPT ![m].buf =
                           IF \E n \in Nodes : node[n].polling /\ takes(m, n, id)
                           THEN <<>> ELSE @]
            /\ UNCHANGED clock
    /\ UNCHANGED <<store, proposals, rounds, trie, call>>

NextRate ==
    \/ CreateGenesisBlock(Roster[1])
    \/ ProposeNext(Roster[1])
    \/ \E p \in proposals : VerifyBlock(Roster[1], p)
    \/ \E p \in proposals : Len(store) < MaxTimed /\ StoreNext(p)
    \/ ReceiveBlockAt(Roster[1], Len(store))
    \/ \E id \in {1, Len(store)} \cap (1..Len(store)) :
            Joined(Roster[2], id) /\ ReceiveBlockAt(Roster[2], id)
    \/ GetTxs(Roster[2], Len(store))
    \/ catchUp(Roster[2])
    \/ Tick

SpecRate == Init /\ [][NextRate]_vars

(***************************************************************************)
(* GetProof and CheckAuthorization.  query is the last of these requests   *)
(* a node has served: whether a catch-up was in progress, whether the      *)
(* handler held updateTrieLock, whether it read the trie, and its error.   *)
(***************************************************************************)
Versions == {0, CurrentVersion}

Query(kind, during, held) ==
    [kind |-> kind, during |-> during, held |-> held, read |-> FALSE, err |-> "none"]

\* GetReadOnlyStateTrie and the reads of the handler that follow it.
readTrie(nd, q) ==
    IF nd.st.exists THEN [q EXCEPT !.read = TRUE] ELSE [q EXCEPT !.err = "trie"]

\* GetProof: the handler takes updateTrieLock, then checks catchingUp, the
\* version and the block before it reads the trie.
GetProof(n, version, id) ==
    /\ node' = [node EXCEPT ![n].query =
            IF node[n].catchingUp
            THEN [Query("GetProof", node[n].catchingUp, TRUE) EXCEPT !.err = "catchingUp"]
            ELSE IF version # CurrentVersion
            THEN [Query("GetProof", node[n].catchingUp, TRUE) EXCEPT !.err = "version"]
            ELSE IF id \notin node[n].db
            THEN [Query("GetProof", node[n].catchingUp, TRUE) EXCEPT !.err = "block"]
            ELSE readTrie(node[n], Query("GetProof", node[n].catchingUp, TRUE))]
    /\ UNCHANGED <<store, proposals, rounds, storeVars>>

\* CheckAuthorization: the handler checks the version and reads the trie.
CheckAuthorization(n, version) ==
    /\ node' = [node EXCEPT ![n].query =
            IF version # CurrentVersion
            THEN [Query("CheckAuthorization", node[n].catchingUp, FALSE)
                    EXCEPT !.err = "version"]
            ELSE readTrie(node[n], Query("CheckAuthorization", node[n].catchingUp, FALSE))]
    /\ UNCHANGED <<store, proposals, rounds, storeVars>>

NextQuery ==
    \/ CreateGenesisBlock(Roster[1])
    \/ \E txIn \in FewBatches : ProposeBlock(Roster[1], txIn, 1)
    \/ \E p \in proposals : VerifyBlock(Roster[1], p)
    \/ \E p \in proposals : StoreBlock(p)
    \/ \E n \in Nodes, id \in 1..Len(store) : ReceiveBlock(n, id)
    \/ catchUp(Roster[2])
    \/ \E version \in Versions, id \in 1..MaxBlocks : GetProof(Roster[2], version, id)
    \/ \E version \in Versions : CheckAuthorization(Roster[2], version)

SpecQuery == Init /\ [][NextQuery]_vars

(***************************************************************************)
(* DownloadState: the stream of the entries of the bucket of a trie.  ds   *)
(* is the downloadState of the service: the chain and the nonce of the     *)
(* stream, the stop channel, and read, the entries the goroutine of the    *)
(* stream has still to send before it closes the channel.  snap and got    *)
(* remember the entries of the bucket when the stream started and the      *)
(* entries its pages have returned; resp is the last request with the      *)
(* answer to it and the stream as it was before the request.               *)
(***************************************************************************)
\* The keys of a bucket in the order of bucket.ForEach.
KeyOrder == <<"cfg", "ctr1", "ctr2", "d", "x">>

\* bucket.ForEach over the bucket of the trie, from the i-th key on.
RECURSIVE ForEach(_, _)
ForEach(data, i) ==
    IF i > Len(KeyOrder) THEN <<>>
    ELSE (IF data[KeyOrder[i]].present
          THEN <<[key |-> KeyOrder[i], value |-> data[KeyOrder[i]]]>>
          ELSE <<>>) \o ForEach(data, i + 1)

\* A request of DownloadState.
DownloadStateReq(id, nonce, length) == [id |-> id, nonce |-> nonce, length |-> length]

\* The answer to req with the stream as it was before the request.
DownloadStateResp(nd, req, err, nonce, kvs) ==
    [req |-> req, err |-> err, nonce |-> nonce, kvs |-> kvs,
     known |-> req.id \in nd.db /\ store[req.id].index = 0,
     before |-> [id |-> nd.ds.id, nonce |-> nd.ds.nonce, read |-> nd.ds.read]]

\* The loop of the handler over downloadState.read: up to length entries,
\* fewer when the channel is closed.
pageRead(nd, req, ds) ==
    [nd EXCEPT !.ds = [ds EXCEPT
        !.read = SubSeq(ds.read, (IF req.length < Len(ds.read) THEN req.length
                                  ELSE Len(ds.read)) + 1, Len(ds.read)),
        !.got  = @ \o SubSeq(ds.read, 1, IF req.length < Len(ds.read) THEN req.length
                                         ELSE Len(ds.read)),
        !.resp = DownloadStateResp(nd, req, "none", ds.nonce,
                    SubSeq(ds.read, 1, IF req.length < Len(ds.read) THEN req.length
                                       ELSE Len(ds.read)))]]

\* A stream that starts: the goroutine iterates over the bucket in one
\* read transaction; the nonce is 64 random bits, taken to differ from 0
\* and from the nonces drawn before.
streamStarted(nd, req) ==
    pageRead(nd, req, [nd.ds EXCEPT !.id = req.id, !.nonce = nd.ds.drawn + 1,
                                    !.drawn = @ + 1, !.stop = "open",
                                    !.read = ForEach(nd.st.data, 1),
                                    !.snap = ForEach(nd.st.data, 1), !.got = <<>>])

\* close(s.downloadState.stop): the goroutine of the stream returns and
\* closes read.
stopClosed(nd) == [nd EXCEPT !.ds.stop = "closed", !.ds.read = <<>>]

\* A request with the nonce 0, after the stream in progress was aborted.
newDownload(nd, aborted, req) ==
    IF req.id \notin nd.db \/ store[req.id].index > 0
    THEN [aborted EXCEPT !.ds.resp = DownloadStateResp(nd, req, "unknown byzcoinID", 0, <<>>)]
    ELSE [streamStarted(aborted, req) EXCEPT
            !.ds.resp = DownloadStateResp(nd, req, "none", nd.ds.drawn + 1,
                                          streamStarted(aborted, req).ds.resp.kvs)]

\* DownloadState of a node with the state nd.  Closing the stop channel a
\* second time panics.
downloadStateServed(nd, req) ==
    IF req.length <= 0
    THEN [nd EXCEPT !.ds.resp = DownloadStateResp(nd, req, "length", 0, <<>>)]
    ELSE IF req.nonce = 0
    THEN IF nd.ds.id # 0 /\ nd.ds.stop = "closed"
         THEN [nd EXCEPT !.ds.panic = TRUE,
                         !.ds.resp = DownloadStateResp(nd, req, "panic", 0, <<>>)]
         ELSE newDownload(nd, IF nd.ds.id # 0 THEN stopClosed(nd) ELSE nd, req)
    ELSE IF nd.ds.id # req.id \/ req.nonce # nd.ds.nonce
    THEN [nd EXCEPT !.ds.resp = DownloadStateResp(nd, req, "aborted", 0, <<>>)]
    ELSE pageRead(nd, req, nd.ds)

DownloadState(n, req) ==
    /\ ~node[n].ds.panic
    /\ node' = [node EXCEPT ![n] = downloadStateServed(node[n], req)]
    /\ UNCHANGED <<store, proposals, rounds, storeVars>>

DownloadStateReqs ==
    {DownloadStateReq(id, nonce, length) :
        id \in 1..MaxBlocks, nonce \in 0..MaxNonce, length \in 0..MaxLength}

NextStream ==
    \/ CreateGenesisBlock(Roster[1])
    \/ \E txIn \in FewBatches : ProposeBlock(Roster[1], txIn, 1)
    \/ \E p \in proposals : VerifyBlock(Roster[1], p)
    \/ \E p \in proposals : Len(store) < 2 /\ StoreBlock(p)
    \/ \E id \in 1..Len(store) : ReceiveBlock(Roster[1], id)
    \/ \E req \in DownloadStateReqs :
            node[Roster[1]].ds.drawn < MaxNonce /\ DownloadState(Roster[1], req)

SpecStream == Init /\ [][NextStream]_vars

(***************************************************************************)
(* The Debug and DebugRemove endpoints.  debug is the last request to one  *)
(* of them: its path, whether it came from a loopback address, whether     *)
(* its signature verifies, and whether the handler of the path has run.    *)
(***************************************************************************)
DebugPaths == {"Debug", "DebugRemove"}
RemoteAddrs == {"127.0.0.1", "10.0.0.7"}

\* net.ParseIP(h).IsLoopback()
IsLoopback(addr) == addr = "127.0.0.1"

\* A Schnorr signature by the key of signer over msg.
Signatures == [signer : Nodes \cup {"client"}, msg : {ChainID, OtherChainID}]

\* schnorr.Verify(suite, public, msg, sig)
schnorrVerify(public, msg, sig) == sig.signer = public /\ sig.msg = msg

\* DebugRemove of node n for the chain id: heartbeat, polling channel,
\* bucket of the trie, blocks of the chain and view-change monitor of the
\* chain are removed.  The entry of stateTries is found under the hex
\* string of the id and deleted under the raw string, so it stays.
debugRemoved(n, nd, id, sig) ==
    IF ~schnorrVerify(n, id, sig) THEN nd
    ELSE IF id # ChainID THEN nd
    ELSE [nd EXCEPT !.hb = FALSE, !.polling = FALSE, !.vc = "off",
                    !.tasks = IF nd.polling THEN @ - 1 ELSE @,
                    !.stale = hasStateTrie(nd),
                    !.st = IF hasStateTrie(nd) THEN NoStateTrie ELSE @,
                    !.db = IF hasStateTrie(nd) THEN {} ELSE @]

\* DebugRemove when the bucket of the trie cannot be deleted (no database,
\* or an error of the update): the handler returns the error from inside
\* the section of stateTriesLock.
debugRemoveFailed(n, nd, id, sig) ==
    IF ~schnorrVerify(n, id, sig) THEN nd
    ELSE IF id # ChainID THEN nd
    ELSE IF ~hasStateTrie(nd)
    THEN debugRemoved(n, nd, id, sig)
    ELSE [nd EXCEPT !.hb = FALSE, !.polling = FALSE,
                    !.tasks = IF nd.polling THEN @ - 1 ELSE @,
                    !.triesLocked = TRUE]

\* The DebugRemove request whose deletion of the bucket fails.
DebugRemoveFailed(n, addr, id, sig) ==
    /\ node[n].debug.count < MaxDebug
    /\ node' = [node EXCEPT ![n] =
            [debugRemoveFailed(n, node[n], id, sig)
                EXCEPT !.debug = [count |-> @.count + 1, path |-> "DebugRemove",
                                  addr |-> addr, valid |-> schnorrVerify(n, id, sig),
                                  served |-> FALSE]]]
    /\ UNCHANGED <<store, proposals, rounds, storeVars>>

\* Service.ProcessClientRequest for the two paths: the loopback check and
\* the handler of the path; Debug only reads.
processClientRequest(n, nd, path, addr, id, sig) ==
    IF path = "Debug" /\ ~IsLoopback(addr)
    THEN [nd EXCEPT !.debug = [count |-> @.count + 1, path |-> path, addr |-> addr,
                               valid |-> schnorrVerify(n, id, sig), served |-> FALSE]]
    ELSE [(IF path = "DebugRemove" THEN debugRemoved(n, nd, id, sig) ELSE nd)
            EXCEPT !.debug = [count |-> @.count + 1, path |-> path, addr |-> addr,
                              valid |-> schnorrVerify(n, id, sig),
                              served |-> path = "Debug" \/ schnorrVerify(n, id, sig)]]

ProcessClientRequest(n, path, addr, id, sig) ==
    /\ node[n].debug.count < MaxDebug
    /\ node' = [node EXCEPT ![n] = processClientRequest(n, node[n], path, addr, id, sig)]
    /\ UNCHANGED <<store, proposals, rounds, storeVars>>

\* The chain runs on a node until a DebugRemove has removed it there; a
\* handler that needs stateTriesLock waits while the lock is held.
NextDebug ==
    \/ CreateGenesisBlock(Roster[1])
    \/ \E txIn \in FewBatches : ~node[Roster[1]].triesLocked /\ ProposeBlock(Roster[1], txIn, 1)
    \/ \E p \in proposals : ~node[Roster[1]].triesLocked /\ VerifyBlock(Roster[1], p)
    \/ \E p \in proposals : Len(store) < 2 /\ StoreBlock(p)
    \/ \E id \in 1..Len(store) :
            /\ ~(node[Roster[1]].debug.served /\ node[Roster[1]].debug.path = "DebugRemove")
            /\ ~node[Roster[1]].triesLocked
            /\ ReceiveBlock(Roster[1], id)
    \/ \E path \in DebugPaths, addr \in RemoteAddrs, id \in {ChainID, OtherChainID},
         sig \in Signatures :
            /\ ~node[Roster[1]].triesLocked
            /\ ProcessClientRequest(Roster[1], path, addr, id, sig)
    \/ \E addr \in RemoteAddrs, id \in {ChainID, OtherChainID}, sig \in Signatures :
            /\ ~node[Roster[1]].triesLocked
            /\ DebugRemoveFailed(Roster[1], addr, id, sig)

SpecDebug == Init /\ [][NextDebug]_vars

(***************************************************************************)
(* The execution of blocks with transactions that fail after their first   *)
(* instruction.                                                            *)
(***************************************************************************)
\* A transaction of s1 whose first instruction spawns x and whose second
\* instruction carries a signature that does not verify.
TxHalf ==
    <<Instr(GenesisDarcID, TRUE, FALSE, FALSE, ContractDarcID, "", <<"s1">>, <<1>>, <<TRUE>>,
            <<Item(Create, "x", ContractDarcID, 1)>>, FALSE, FALSE),
      Instr(GenesisDarcID, FALSE, TRUE, FALSE, ContractDarcID, "evolve", <<"s1">>, <<2>>, <<FALSE>>,
            <<Item(Update, GenesisDarcID, ContractDarcID, 3)>>, FALSE, FALSE)>>

\* A transaction of s2 whose second instruction updates an instance that
\* does not exist.
TxHalfStore ==
    <<Instr(GenesisDarcID, FALSE, TRUE, FALSE, ContractDarcID, "evolve", <<"s2">>, <<1>>, <<TRUE>>,
            <<Item(Update, GenesisDarcID, ContractDarcID, 4)>>, FALSE, FALSE),
      Instr(GenesisDarcID, FALSE, TRUE, FALSE, ContractDarcID, "evolve", <<"s2">>, <<2>>, <<TRUE>>,
            <<Item(Update, GenesisDarcID, ContractDarcID, 5),
              Item(Update, "x", ContractDarcID, 6)>>, FALSE, FALSE)>>

FrameBatches ==
    {<<TxHalf>>, <<TxHalf, TxSpawn>>, <<TxSpawn, TxHalf>>, <<TxHalfStore, TxTwo>>,
     <<TxHalfStore, TxSpawn>>}

NextFrame ==
    \/ \E n \in Nodes : CreateGenesisBlock(n)
    \/ \E n \in Nodes, txIn \in FrameBatches, budget \in 1..MaxBudget : ProposeBlock(n, txIn, budget)
    \/ \E p \in proposals : VerifyRound(p)
    \/ \E p \in proposals : StoreBlock(p)
    \/ \E p \in proposals : DropProposal(p)
    \/ \E id \in 1..Len(store) : PropagateBlock(id)

SpecFrame == Init /\ [][NextFrame]_vars

(***************************************************************************)
(* verifySkipBlock, the check of the timestamp of the header.  Times are   *)
(* in seconds.  stamp holds the block interval of the configuration in the *)
(* trie of the node, the block interval the state changes of the block     *)
(* write into the configuration (0: they leave it alone), the timestamp of *)
(* the header and the time of the check.                                   *)
(***************************************************************************)
minTimestampWindow == 10

\* LoadConfigFromTrie(sst) after sst.StoreAll(scs): the block interval of
\* the configuration with the state changes of the block.
blockIntervalAfter(interval, update) == IF update # 0 THEN update ELSE interval

\* The window with the bounds of the opposite configuration: the one the
\* trie held before the block.
windowBefore(interval, update) ==
    IF 4 * interval < minTimestampWindow THEN minTimestampWindow ELSE 4 * interval

\* window := 4 * config.BlockInterval, at least minTimestampWindow.
window(interval, update) ==
    IF 4 * blockIntervalAfter(interval, update) < minTimestampWindow THEN minTimestampWindow
    ELSE 4 * blockIntervalAfter(interval, update)

\* The check that refuses the bounds themselves.
timestampCheckStrict(now, ts, w) == ~(ts <= now - w \/ ts >= now + w)

\* ts.Before(t1) || ts.After(t2) returns false.
timestampCheck(now, ts, w) == ~(ts < now - w \/ ts > now + w)

\* A node whose trie has the block interval interval verifies at the time
\* clock.now a block with the timestamp ts whose state changes set update.
VerifyTimestamp(interval, update, ts) ==
    /\ ~clock.stamp.done
    /\ clock' = [clock EXCEPT !.stamp =
            [interval |-> interval, update |-> update, ts |-> ts, now |-> clock.now,
             done |-> TRUE, ok |-> timestampCheck(clock.now, ts, window(interval, update))]]
    /\ UNCHANGED <<node, store, proposals, rounds, trie, call>>

NextWindow ==
    \/ Tick
    \/ \E interval \in 1..MaxInterval, update \in 0..MaxInterval, ts \in 0..MaxStamp :
            VerifyTimestamp(interval, update, ts)

SpecWindow == Init /\ [][NextWindow]_vars

(***************************************************************************)
(* getTxs, the answer of a node to a collection request.  collect is the   *)
(* last request: the leader it claims to come from, the latest block it    *)
(* names, the transactions returned and whether the heartbeat was beaten.  *)
(***************************************************************************)
\* The record of a request that returns txs.
collectAnswered(nd, leader, id, txs, beat) ==
    [nd EXCEPT !.collect = [count |-> @.count + 1, leader |-> leader, id |-> id,
                            txs |-> txs, beat |-> beat]]

\* getTxs that beats the heartbeat and takes the buffer for any leader.
leaderUnchecked(nd, leader, id) ==
    IF ~nd.st.exists THEN collectAnswered(nd, leader, id, <<>>, FALSE)
    ELSE collectAnswered([nd EXCEPT !.buf = <<>>], leader, id, nd.buf, TRUE)

\* getTxs from the call of getLeader on: nd is a node that knows the block.
leaderChecked(nd, leader, id) ==
    IF ~nd.st.exists THEN collectAnswered(nd, leader, id, <<>>, FALSE)
    ELSE IF leader # LeaderOf(nd.st.data) THEN collectAnswered(nd, leader, id, <<>>, FALSE)
    ELSE collectAnswered([nd EXCEPT !.buf = <<>>], leader, id, nd.buf, TRUE)

\* getTxs of a node with the state nd; caught is the node after
\* catchupFromID when WaitBlock asks for a catch-up.
getTxsServed(nd, caught, leader, id, doCatchUp) ==
    IF nd.closed THEN collectAnswered(nd, leader, id, <<>>, FALSE)
    ELSE IF id \notin nd.db
    THEN collectAnswered(IF doCatchUp THEN caught ELSE nd, leader, id, <<>>, FALSE)
    ELSE leaderChecked(nd, leader, id)

\* A collection request reaches node m.
CollectTxRequest(m, leader, id, doCatchUp) ==
    /\ node[m].collect.count < MaxCollect
    /\ id \in 1..Len(store)
    /\ node' = [node EXCEPT ![m] =
            getTxsServed(node[m], catchupFromID(node[m], clock.history[m], clock.now, id).nd,
                         leader, id, doCatchUp)]
    /\ clock' = IF node[m].closed \/ id \in node[m].db \/ ~doCatchUp THEN clock
                ELSE [stamped(m) EXCEPT !.history[m] =
                        catchupFromID(node[m], clock.history[m], clock.now, id).history]
    /\ UNCHANGED <<store, proposals, rounds, trie, call>>

\* A client transaction is put into the buffer of node m.
TxBuffered(m, tx) ==
    /\ Len(node[m].buf) < MaxBuffer + 1
    /\ ~node[m].closed
    /\ node' = [node EXCEPT ![m] = bufferAdd(node[m], tx)]
    /\ UNCHANGED <<store, proposals, rounds, storeVars>>

\* TestClose: the flag is set under closedMutex, cleanupGoroutines stops
\* the heartbeats, the view-change monitors and the polling tasks and
\* waits for the polling goroutines, then working.Wait() waits for the
\* calls that counted themselves (none is in flight between two steps).
TestClose(m) ==
    /\ ~node[m].closed
    /\ node' = [node EXCEPT ![m].closed = TRUE, ![m].hb = FALSE, ![m].vc = "off",
                            ![m].polling = FALSE,
                            ![m].tasks = IF node[m].polling THEN @ - 1 ELSE @]
    /\ UNCHANGED <<store, proposals, rounds, storeVars>>

NextCollect ==
    \/ CreateGenesisBlock(Roster[1])
    \/ \E txIn \in FewBatches : ProposeBlock(Roster[1], txIn, 1)
    \/ \E p \in proposals : VerifyBlock(Roster[1], p)
    \/ \E p \in proposals : Len(store) < 2 /\ StoreBlock(p)
    \/ \E n \in Nodes, id \in 1..Len(store) : ReceiveBlock(n, id)
    \/ \E tx \in {TxSpawn, TxBadSig} : TxBuffered(Roster[2], tx)
    \/ TestClose(Roster[2])
    \/ \E leader \in Nodes, id \in 1..Len(store), doCatchUp \in BOOLEAN :
            CollectTxRequest(Roster[2], leader, id, doCatchUp)

SpecCollect == Init /\ [][NextCollect]_vars

(***************************************************************************)
(* txBuffer: the goroutines of a service call add and take, each call      *)
(* locking the mutex of the buffer, reading the entry of the chain and     *)
(* writing or deleting it.                                                 *)
(***************************************************************************)
\* The buffer of the service under study after a step.
txBufferSet(tb) ==
    /\ node' = [node EXCEPT ![Roster[1]].txb = tb]
    /\ UNCHANGED <<store, proposals, rounds, storeVars>>

\* A mutex that lets every caller in.
mutexIgnored(tb) == TRUE

\* sync.Mutex: Lock returns when nobody holds the mutex.
mutexFree(tb) == tb.holder = 0

\* A goroutine calls add(key, newTx) with a transaction no call has added.
CallAdd(t, key) ==
    /\ node[Roster[1]].txb.th[t].pc = "idle"
    /\ node[Roster[1]].txb.next <= MaxAdds
    /\ txBufferSet([node[Roster[1]].txb EXCEPT
            !.th[t] = [pc |-> "add", key |-> key, tx |-> node[Roster[1]].txb.next,
                       local |-> NoTxs],
            !.next = @ + 1])

\* A goroutine calls take(key).
CallTake(t, key) ==
    /\ node[Roster[1]].txb.th[t].pc = "idle"
    /\ node[Roster[1]].txb.takes < MaxTakes
    /\ txBufferSet([node[Roster[1]].txb EXCEPT
            !.th[t] = [pc |-> "take", key |-> key, tx |-> 0, local |-> NoTxs],
            !.takes = @ + 1])

\* r.Lock() followed by txs, ok := r.txsMap[key].
LockAndRead(t) ==
    /\ node[Roster[1]].txb.th[t].pc \in {"add", "take"}
    /\ mutexFree(node[Roster[1]].txb)
    /\ txBufferSet([node[Roster[1]].txb EXCEPT
            !.holder = t,
            !.th[t].pc = IF @ = "add" THEN "add.write" ELSE "take.delete",
            !.th[t].local = node[Roster[1]].txb.txsMap[node[Roster[1]].txb.th[t].key]])

\* add: the entry of the chain becomes the transactions read with newTx
\* appended (newTx alone when there was no entry); the mutex is unlocked.
AddWrite(t) ==
    /\ node[Roster[1]].txb.th[t].pc = "add.write"
    /\ txBufferSet([node[Roster[1]].txb EXCEPT
            !.txsMap[node[Roster[1]].txb.th[t].key] =
                [ok |-> TRUE,
                 txs |-> IF node[Roster[1]].txb.th[t].local.ok
                         THEN Append(node[Roster[1]].txb.th[t].local.txs,
                                     node[Roster[1]].txb.th[t].tx)
                         ELSE <<node[Roster[1]].txb.th[t].tx>>],
            !.added[node[Roster[1]].txb.th[t].key] = Append(@, node[Roster[1]].txb.th[t].tx),
            !.holder = 0,
            !.th[t].pc = "idle"])

\* take: without an entry nothing is returned; otherwise the entry is
\* deleted and the transactions read are returned; the mutex is unlocked.
TakeDelete(t) ==
    /\ node[Roster[1]].txb.th[t].pc = "take.delete"
    /\ txBufferSet([node[Roster[1]].txb EXCEPT
            !.txsMap[node[Roster[1]].txb.th[t].key] =
                IF node[Roster[1]].txb.th[t].local.ok THEN NoTxs ELSE @,
            !.taken[node[Roster[1]].txb.th[t].key] = @ \o node[Roster[1]].txb.th[t].local.txs,
            !.holder = 0,
            !.th[t].pc = "idle"])

NextBuffer ==
    \/ \E t \in Threads, key \in Chains : CallAdd(t, key)
    \/ \E t \in Threads, key \in Chains : CallTake(t, key)
    \/ \E t \in Threads : LockAndRead(t)
    \/ \E t \in Threads : AddWrite(t)
    \/ \E t \in Threads : TakeDelete(t)

SpecBuffer == Init /\ [][NextBuffer]_vars

(***************************************************************************)
(* The choice of catchUp between the pull of the blocks and the download   *)
(* of the state, for a roster of any size.  choice is the last call of     *)
(* catchUp: whether the trie could be loaded, its index, the index of the  *)
(* reference block, the size of its roster, the choice and the positions   *)
(* of the roster downloadDB has sent DownloadState requests to.            *)
(***************************************************************************)
\* The loop of downloadDB from the position ri on, where the conode at the
\* position good is the only one whose state passes the checks.
RECURSIVE askedFrom(_, _, _)
askedFrom(ri, nodes, good) ==
    IF ri >= nodes THEN {}
    ELSE IF ri = good THEN {ri}
    ELSE {ri} \cup askedFrom(ri + 1, nodes, good)

\* catchUp(sb) up to the return after downloadDB.
catchUpFor(exists, trieIndex, sbIndex, nodes, good) ==
    /\ ~clock.choice.done
    /\ clock' = [clock EXCEPT !.choice =
            [done |-> TRUE, exists |-> exists, trieIndex |-> trieIndex, sbIndex |-> sbIndex,
             nodes |-> nodes, download |-> download(exists, sbIndex, trieIndex),
             asked |-> IF download(exists, sbIndex, trieIndex)
                       THEN askedFrom(1 + subLeaders(nodes), nodes, good)
                       ELSE {}]]
    /\ UNCHANGED <<node, store, proposals, rounds, trie, call>>

NextChoice ==
    \E exists \in BOOLEAN, trieIndex \in 0..MaxTrieIndex,
       sbIndex \in (catchupDownloadAll - MaxAhead)..(catchupDownloadAll + MaxAhead),
       nodes \in 1..MaxRoster, good \in 0..MaxRoster :
        catchUpFor(exists, trieIndex, sbIndex, nodes, good)

SpecChoice == Init /\ [][NextChoice]_vars

(***************************************************************************)
(* The goroutine of catchUp in downloadDB next to the commit callbacks.    *)
(* access is the last access of a node to the back-end of the trie: who    *)
(* made it (the callback or the download), whether it read or wrote,       *)
(* whether its goroutine held updateTrieLock and whether downloadDB was at *)
(* work on the bucket of the trie in another goroutine.                    *)
(***************************************************************************)
\* downloadDB up to the first DownloadState request: getStateTrie, the
\* deletion of a bucket and of the entry of stateTries.  catchUp runs in
\* its own goroutine and takes updateTrieLock in its deferred function only.
downloadStarted(n) ==
    /\ node[n].catchingUp
    /\ node[n].cuTarget # 0
    /\ ~node[n].access.downloading
    /\ download(node[n].st.exists, store[node[n].cuTarget].index, GetIndex(node[n].st))
    /\ node' = [node EXCEPT ![n].access =
                    [downloading |-> TRUE, by |-> "download", kind |-> "write",
                     held |-> FALSE, during |-> FALSE]]
    /\ UNCHANGED <<store, proposals, rounds, storeVars>>

\* downloadDB from the first DownloadState request on, and the end of
\* catchUp: the pages are put into the bucket, the trie is loaded and
\* checked.
downloadEnded(n, answers) ==
    /\ node[n].access.downloading
    /\ node' = [node EXCEPT ![n] =
            [catchUpDone([downloadDB(node[n], node[n].cuTarget, answers,
                                     1 + subLeaders(Conodes), Conodes).nd
                          EXCEPT !.dl = [made |-> TRUE,
                                         err  |-> downloadDB(node[n], node[n].cuTarget, answers,
                                                             1 + subLeaders(Conodes), Conodes).err]])
             EXCEPT !.access = [downloading |-> FALSE, by |-> "download", kind |-> "write",
                                held |-> FALSE, during |-> FALSE]]]
    /\ UNCHANGED <<store, proposals, rounds, storeVars>>

\* The callback of node n for a new block id, with its access to the
\* trie: none when the block is skipped for its forward links, a write
\* when the trie is created or the block is applied, else the read of
\* getStateTrie and GetIndex.  The callback holds updateTrieLock.
callbackLocked(n, id) ==
    /\ id \in 1..Len(store)
    /\ id \notin node[n].db
    /\ node' = [node EXCEPT ![n] =
            [StoreBlocks(n, node[n], <<id>>) EXCEPT !.access =
                IF hasForwardLink(node[n].db \cup {id}, id) /\ ~node[n].catchingUp
                   /\ store[id].index # 0
                THEN node[n].access
                ELSE [downloading |-> node[n].access.downloading, by |-> "callback",
                      kind |-> IF StoreBlocks(n, node[n], <<id>>).st # node[n].st
                               THEN "write" ELSE "read",
                      held |-> TRUE, during |-> node[n].access.downloading]]]
    /\ UNCHANGED <<store, proposals, rounds, storeVars>>

NextSerial ==
    \/ CreateGenesisBlock(Roster[1])
    \/ \E txIn \in FewBatches : ProposeBlock(Roster[1], txIn, 1)
    \/ \E p \in proposals : VerifyBlock(Roster[1], p)
    \/ \E p \in proposals : StoreBlock(p)
    \/ \E n \in Nodes, id \in 1..Len(store) : callbackLocked(n, id)
    \/ ~node[Roster[2]].access.downloading /\ catchUp(Roster[2])
    \/ catchupAll(Roster[2])
    \/ downloadStarted(Roster[2])
    \/ \E answers \in AnswerLists : downloadEnded(Roster[2], answers)

SpecSerial == Init /\ [][NextSerial]_vars

(***************************************************************************)
(* The close of the service of Roster[2] on a growing chain: callbacks,    *)
(* collection requests and the goroutine of catchUp that the callback      *)
(* starts without adding it to the wait group working.                     *)
(***************************************************************************)
NextClose ==
    \/ CreateGenesisBlock(Roster[1])
    \/ \E txIn \in FewBatches : ProposeBlock(Roster[1], txIn, 1)
    \/ \E p \in proposals : VerifyBlock(Roster[1], p)
    \/ \E p \in proposals : StoreBlock(p)
    \/ \E n \in Nodes, id \in 1..Len(store) : ReceiveBlock(n, id)
    \/ catchUp(Roster[2])
    \/ TestClose(Roster[2])
    \/ \E leader \in Nodes, id \in 1..Len(store) :
            CollectTxRequest(Roster[2], leader, id, FALSE)

SpecClose == Init /\ [][NextClose]_vars

(***************************************************************************)
(* Blocks of transactions whose contracts return a Create of a present     *)
(* instance, or an Update or a Remove of an absent one.                    *)
(***************************************************************************)
\* s1 spawns x a second time.
TxSpawnAgain ==
    <<Instr(GenesisDarcID, TRUE, FALSE, FALSE, ContractDarcID, "", <<"s1">>, <<2>>, <<TRUE>>,
            <<Item(Create, "x", ContractDarcID, 2)>>, FALSE, FALSE)>>

\* s2 has x removed.
TxDrop ==
    <<Instr(GenesisDarcID, FALSE, TRUE, FALSE, ContractDarcID, "evolve", <<"s2">>, <<1>>, <<TRUE>>,
            <<Item(Remove, "x", ContractDarcID, 0)>>, FALSE, FALSE)>>

ForbiddenBatches ==
    {<<TxSpawn, TxSpawnAgain>>, <<TxDrop, TxSpawn>>, <<TxSpawn, TxDrop>>,
     <<TxHalfStore, TxSpawn>>, <<TxSpawnAgain>>}

NextForbidden ==
    \/ \E n \in Nodes : CreateGenesisBlock(n)
    \/ \E n \in Nodes, txIn \in ForbiddenBatches : ProposeBlock(n, txIn, MaxBudget)
    \/ \E p \in proposals : VerifyRound(p)
    \/ \E p \in proposals : StoreBlock(p)
    \/ \E p \in proposals : DropProposal(p)
    \/ \E id \in 1..Len(store) : PropagateBlock(id)

SpecForbidden == Init /\ [][NextForbidden]_vars

(***************************************************************************)
(* Blocks of transactions whose contracts return an error.                 *)
(***************************************************************************)
\* The contract returns an error together with a change of the genesis DARC.
TxFault ==
    <<Instr(GenesisDarcID, FALSE, TRUE, FALSE, ContractDarcID, "evolve", <<"s2">>, <<1>>, <<TRUE>>,
            <<Item(Update, GenesisDarcID, ContractDarcID, 7)>>, TRUE, FALSE)>>

\* The contract returns an error, or panics, and no change.
TxFaultBare ==
    <<Instr(GenesisDarcID, FALSE, TRUE, FALSE, ContractDarcID, "evolve", <<"s2">>, <<1>>, <<TRUE>>,
            <<>>, TRUE, FALSE)>>

FaultBatches ==
    {<<TxFault, TxSpawn>>, <<TxFaultBare, TxSpawn>>, <<TxSpawn, TxFault>>, <<TxSpawn>>}

NextFault ==
    \/ \E n \in Nodes : CreateGenesisBlock(n)
    \/ \E n \in Nodes, txIn \in FaultBatches : ProposeBlock(n, txIn, MaxBudget)
    \/ \E p \in proposals : VerifyRound(p)
    \/ \E p \in proposals : StoreBlock(p)
    \/ \E p \in proposals : DropProposal(p)
    \/ \E id \in 1..Len(store) : PropagateBlock(id)

SpecFault == Init /\ [][NextFault]_vars

(***************************************************************************)
(* The end of a catch-up.  cuTarget is the reference block of the catchUp  *)
(* that runs on the node (0: no catchUp runs).                             *)
(***************************************************************************)
\* catchupFromID when GetSingleBlock of the client reaches the roster or
\* not: a request that passes the checks sets catchingUp; without the
\* reference block catchupFromID returns the error of the client and
\* catchUp is not called.
catchupFromIDVia(nd, history, now, sbID, reached) ==
    IF reached \/ nd.catchingUp THEN catchupFromID(nd, history, now, sbID)
    ELSE [catchupFromID(nd, history, now, sbID) EXCEPT !.nd.cuTarget = 0]

\* getTxs of a node m that does not know the latest block id of the
\* collection round: catchupFromID, and no transactions are returned.
GetTxsVia(m, id, reached) ==
    /\ id \in 1..Len(store)
    /\ id \notin node[m].db
    /\ \E n \in Nodes : node[n].polling /\ IsLatest(node[n].db, id)
    /\ node' = [node EXCEPT ![m] =
                    catchupFromIDVia(node[m], clock.history[m], clock.now, id, reached).nd]
    /\ clock' = [stamped(m) EXCEPT !.history[m] =
                    catchupFromIDVia(node[m], clock.history[m], clock.now, id, reached).history]
    /\ UNCHANGED <<store, proposals, rounds, trie, call>>

\* A step of the catchUp that runs on node n: a round of its loop, the
\* download, or an error of the remote that ends it.
catchUpStep(n) ==
    \/ catchUp(n)
    \/ catchUpFailed(n)
    \/ \E answers \in AnswerLists : catchUpDownload(n, answers)

NextReset ==
    \/ CreateGenesisBlock(Roster[1])
    \/ ProposeNext(Roster[1])
    \/ \E p \in proposals : VerifyBlock(Roster[1], p)
    \/ \E p \in proposals : Len(store) < MaxBlocks /\ StoreNext(p)
    \/ ReceiveBlockAt(Roster[1], Len(store))
    \/ \E id \in 1..Len(store) : ~node[Roster[2]].catchingUp /\ ReceiveBlockAt(Roster[2], id)
    \/ \E reached \in BOOLEAN : GetTxsVia(Roster[2], Len(store), reached)
    \/ catchupAll(Roster[2])
    \/ catchUp(Roster[2])
    \/ catchUpFailed(Roster[2])
    \/ \E answers \in AnswerLists : catchUpDownload(Roster[2], answers)
    \/ Tick

\* Time passes, and a catchUp that was called runs to its end (its loop
\* and its download are bounded by the timeouts of the client): weak
\* fairness of Tick and of the steps of catchUp, the latter written out
\* as []<>~ENABLED <<A>>_vars \/ []<><<A>>_vars with the enabling condition
\* spelled out.
FairReset ==
    /\ WF_vars(Tick)
    /\ \A n \in Nodes :
        \/ []<>~(node[n].catchingUp /\ node[n].cuTarget # 0)
        \/ []<><<catchUpStep(n)>>_vars

SpecReset == Init /\ [][NextReset]_vars /\ FairReset

(***************************************************************************)
(* The polling tasks over the changes of the leader, the close and the     *)
(* restart of a service.                                                   *)
(***************************************************************************)
\* startAllChains of node n, which was closed: the maps of the tries, of
\* the notifications and of the polling channels are made anew (no
\* channel is closed here); if the configuration of the chain can be
\* loaded, the leader starts a polling task, and the heartbeat and the
\* view-change monitor of the chain start.
startAllChains(n) ==
    /\ node[n].closed
    /\ node' = [node EXCEPT ![n] =
            IF ~node[n].st.exists \/ ~\E c \in node[n].db : store[c].index = 0
            THEN [node[n] EXCEPT !.closed = FALSE, !.wait = NoWaitChannels, !.polling = FALSE,
                                 !.stale = FALSE]
            ELSE [node[n] EXCEPT !.closed  = FALSE,
                                 !.wait    = NoWaitChannels,
                                 !.polling = (LeaderOf(node[n].st.data) = n),
                                 !.tasks   = IF LeaderOf(node[n].st.data) = n THEN @ + 1 ELSE @,
                                 !.stale   = FALSE,
                                 !.hb      = TRUE,
                                 !.vc      = IF node[n].hb THEN @ ELSE vcStart(@)]]
    /\ UNCHANGED <<store, proposals, rounds, storeVars>>

NextPolling ==
    \/ CreateGenesisBlock(Roster[1])
    \/ \E n \in Nodes : ProposeBlock(n, <<TxSpawn>>, 1)
    \/ \E n \in Nodes : HeartbeatTimeout(n)
    \/ \E n \in Nodes : NewViewDue(n) /\ ProposeViewChange(n)
    \/ \E n \in Nodes, p \in proposals : VerifyBlock(n, p)
    \/ \E p \in proposals : StoreBlock(p)
    \/ \E p \in proposals : Stale(p) /\ DropProposal(p)
    \/ \E n \in Nodes, id \in 1..Len(store) : ReceiveBlock(n, id)
    \/ \E n \in Nodes : catchUp(n)
    \/ \E n \in Nodes : TestClose(n)
    \/ \E n \in Nodes : startAllChains(n)

SpecPolling == Init /\ [][NextPolling]_vars

(***************************************************************************)
(* Properties of the commit callback.                                      *)
(***************************************************************************)
\* The indices the callback of node n applied are 0, 1, 2, ... and the
\* index of the trie is the last of them.
AppliedInOrder(n) ==
    /\ \A i \in 1..Len(node[n].applied) : node[n].applied[i].index = i - 1
    /\ GetIndex(node[n].st) = Len(node[n].applied) - 1

\* A step changes the trie of node n only by callbacks that apply blocks
\* (the catch-up runs one callback after the other), and the index of the
\* trie is then the index of the last block applied.
TrieStep(n) ==
    node'[n].st.data # node[n].st.data \/ GetIndex(node'[n].st) # GetIndex(node[n].st)
    => /\ Len(node'[n].applied) > Len(node[n].applied)
       /\ GetIndex(node'[n].st) - GetIndex(node[n].st)
            = Len(node'[n].applied) - Len(node[n].applied)
       /\ Last(node'[n].applied).index = GetIndex(node'[n].st)
       /\ node'[n].last.index = GetIndex(node'[n].st)

\* C1: the commit callback changes the state trie only for the block whose
\* index is the index of the trie + 1 and then sets the index of the trie
\* to the index of that block; whatever the order of the callbacks
\* (repeated, out of order, with skipped indices), the indices it applies
\* are consecutive, without a gap and without a repeat.
C1_ConsecutiveIndices ==
    /\ [](\A n \in Nodes : AppliedInOrder(n))
    /\ [][\A n \in Nodes : TrieStep(n)]_vars

\* A callback for a block beyond the next index has left the trie as it
\* was and started the catch-up, on a node that has applied a block.
C1_Witness ==
    \E n \in Nodes :
        /\ node[n].catchingUp
        /\ node[n].cuTarget # 0
        /\ Len(node[n].applied) >= 1
        /\ store[node[n].cuTarget].index > GetIndex(node[n].st) + 1

(***************************************************************************)
(* Properties of the verifier during a view change.                        *)
(***************************************************************************)
\* A view-change body: exactly one transaction with exactly one
\* instruction, an Invoke of the command view_change that carries a
\* decodable new-view request.
ViewChangeBody(body) ==
    /\ Len(body) = 1
    /\ Len(body[1].tx) = 1
    /\ body[1].tx[1].invoke
    /\ body[1].tx[1].cmd = "view_change"
    /\ body[1].tx[1].newview

\* C9: a node whose view-change manager is waiting rejects every proposed
\* block whose body is not a view-change body; for a node that is not
\* waiting the check rejects nothing: the verdict is the verdict of the
\* other checks.
C9_WaitingRejects ==
    \A p \in proposals : \A n \in Nodes :
        p.votes[n].cast =>
            /\ (p.votes[n].waiting /\ ~ViewChangeBody(p.sb.body)) => ~p.votes[n].ok
            /\ ~p.votes[n].waiting => (p.votes[n].ok = p.votes[n].rest)

\* A waiting node has rejected a block that is not a view-change block and
\* that passes all the other checks.
C9_Witness ==
    \E p \in proposals : \E n \in Nodes :
        /\ p.votes[n].cast
        /\ p.votes[n].waiting
        /\ ~ViewChangeBody(p.sb.body)
        /\ p.votes[n].rest
        /\ ~p.votes[n].ok

(***************************************************************************)
(* View-change safety.                                                     *)
(***************************************************************************)
\* C10: no node commits both a normal block and a view-change block at
\* the same index, even if the skipchain hands it two signed blocks of
\* that index.
C10_OneKindPerIndex ==
    \A n \in Nodes : \A i, j \in 1..Len(node[n].applied) :
        node[n].applied[i].index = node[n].applied[j].index
        => node[n].applied[i].view = node[n].applied[j].view

\* A node holds a signed normal block and a signed view-change block of
\* the same index, and its callback has applied a block of that index.
C10_Witness ==
    \E n \in Nodes : \E a, b \in node[n].db :
        /\ store[a].index = store[b].index
        /\ ViewChangeBody(store[a].body)
        /\ ~ViewChangeBody(store[b].body)
        /\ GetIndex(node[n].st) >= store[a].index
        /\ \E i \in 1..Len(node[n].applied) : node[n].applied[i].index = store[a].index

(***************************************************************************)
(* Properties of the state trie.                                           *)
(***************************************************************************)
\* C2: VerifiedStoreAll is all-or-nothing: if the root after the changes
\* differs from expectedRoot it returns an error and the contents of the
\* trie, its root and the stored index are as before the call; if the root
\* matches, the changes and the index are stored together.
C2_AllOrNothing ==
    call.made =>
        IF GetRoot(Batch(call.pre.data, call.scs)) # call.expectedRoot
        THEN /\ call.err
             /\ trie.data = call.pre.data
             /\ GetRoot(trie.data) = GetRoot(call.pre.data)
             /\ trie.hasIndex = call.pre.hasIndex
             /\ GetIndex(trie) = GetIndex(call.pre)
        ELSE /\ ~call.err
             /\ trie.data = Batch(call.pre.data, call.scs)
             /\ GetIndex(trie) = call.index

\* A call has failed whose changes and index differ from what the trie
\* holds.
C2_Witness ==
    /\ call.made
    /\ call.err
    /\ Len(call.scs) = 2
    /\ Batch(call.pre.data, call.scs) # call.pre.data
    /\ call.index # GetIndex(call.pre)
    /\ trie = call.pre

(***************************************************************************)
(* Properties of the execution of blocks.                                  *)
(***************************************************************************)
\* The header values a node derives from its own execution of a body.
SameAsHeader(sb, vote) ==
    /\ vote.txOut = sb.body
    /\ TxResultsHash(vote.txOut) = sb.txHash
    /\ StateChangesHash(vote.scs) = sb.scHash
    /\ vote.mtr = sb.root

\* C3: determinism: a node that executes the body of a proposed block with
\* createStateChanges (no timeout) on the trie contents the leader built it
\* on obtains the accept/reject vector, the state changes and the trie root
\* of the leader, hence the hashes and the root of the header.
C3_Determinism ==
    \A p \in proposals : \A n \in Nodes :
        (p.votes[n].cast /\ p.votes[n].executed /\ p.votes[n].pre = p.pre)
            => SameAsHeader(p.sb, p.votes[n])

\* The (signer, counter) pairs of the instructions of accepted
\* transactions never repeat in the chain a node has applied.
\* C4: no two accepted transactions of the applied blocks contain an
\* instruction with the same signer and the same counter, whether they are
\* in one block or in different blocks.
C4_NoCounterReuse == \A n \in Nodes : ~node[n].dup

\* A block was applied in which a transaction is accepted and a later one
\* with the same signer and counter is rejected.
C4_Witness ==
    \E n \in Nodes : \E i, j \in 1..Len(node[n].last.body) :
        /\ i < j
        /\ node[n].last.body[i].accepted
        /\ ~node[n].last.body[j].accepted
        /\ PairsOf(node[n].last.body[i].tx) \cap PairsOf(node[n].last.body[j].tx) # {}

\* The number of instructions of tx that list X as a signer.
CountListing(X, tx) ==
    Cardinality({i \in 1..Len(tx) : \E j \in 1..Len(tx[i].signers) : tx[i].signers[j] = X})

\* The same over the transactions of a body: all of them, or the accepted
\* ones only.
RECURSIVE CountInstrs(_, _, _)
CountInstrs(X, body, all) ==
    IF body = <<>> THEN 0
    ELSE (IF all \/ Head(body).accepted THEN CountListing(X, Head(body).tx) ELSE 0)
         + CountInstrs(X, Tail(body), all)

\* C5: for every identity X and every applied block, the counter of X
\* after the block is its counter before the block plus the number of
\* instructions of accepted transactions of the block that list X (a
\* signer never seen counts as 0).
C5_CounterGrowth ==
    \A n \in Nodes : \A X \in Signers :
        node[n].last.id # 0 =>
            getSignerCounter(node[n].last.post, X)
                = getSignerCounter(node[n].last.pre, X) + CountInstrs(X, node[n].last.body, FALSE)

\* The accepted two-instruction transaction of the fresh signer s2 was
\* applied: the counter of s2 went from 0 to 2.
C5_Witness ==
    \E n \in Nodes : \E i \in 1..Len(node[n].last.body) :
        /\ node[n].last.body[i].accepted
        /\ node[n].last.body[i].tx = TxTwo
        /\ ~KeySet(node[n].last.pre, publicVersionKey("s2"))
        /\ getSignerCounter(node[n].last.post, "s2") = 2

\* Every executed transaction stays in the body of the block, in the order
\* it was collected.
RejectedStay ==
    \A p \in proposals :
        /\ Len(p.sb.body) <= Len(p.txIn)
        /\ \A i \in 1..Len(p.sb.body) : p.sb.body[i].tx = p.txIn[i]

\* The positions of the rejected transactions of a body.
RejectedOf(body) == {i \in 1..Len(body) : ~body[i].accepted}

C7_ReplayRejected ==
    \A n \in Nodes :
        node[n].last.id # 0 =>
            /\ \A i \in 1..Len(node[n].last.body) :
                    node[n].last.body[i].tx \in node[n].last.accPre
                        => ~node[n].last.body[i].accepted
            /\ (\A i \in 1..Len(node[n].last.body) :
                    node[n].last.body[i].tx \in node[n].last.accPre)
                        => node[n].last.post = node[n].last.pre

\* A block with the replay of a transaction accepted in an earlier block
\* was applied.
C7_Witness ==
    \E n \in Nodes :
        /\ node[n].last.id # 0
        /\ Len(node[n].last.body) = 1
        /\ node[n].last.body[1].tx \in node[n].last.accPre
        /\ ~node[n].last.body[1].accepted
        /\ node[n].last.post = node[n].last.pre

\* The version law along a list of state changes applied to the trie
\* contents t, for the changes of instances.
RECURSIVE VersionLaw(_, _)
VersionLaw(t, scs) ==
    IF scs = <<>> THEN TRUE
    ELSE /\ Head(scs).iid \in InstanceIDs =>
                IF Head(scs).act = Create /\ ~KeySet(t, Head(scs).iid)
                THEN Head(scs).ver = 0
                ELSE /\ KeySet(t, Head(scs).iid)
                     /\ Head(scs).ver = t[Head(scs).iid].ver + 1
         /\ VersionLaw(BatchOne(t, Head(scs)), Tail(scs))

\* C8: every state change of an applied block carries the version stored
\* for its instance just before the change plus 1, or 0 if and only if it
\* is a Create of an absent instance, also when one instruction or one
\* batch changes the same instance several times.
C8_VersionLaw ==
    \A n \in Nodes : node[n].last.id # 0 => VersionLaw(node[n].last.pre, node[n].last.scs)

(***************************************************************************)
(* Liveness after the failure of the leader.                               *)
(***************************************************************************)
\* Node n has applied a view-change block and its configuration names the
\* next node of the roster as the leader.
ViewChanged(n) ==
    /\ \E i \in node[n].db :
            ViewChangeBody(store[i].body) /\ GetIndex(node[n].st) >= store[i].index
    /\ node[n].st.exists
    /\ LeaderOf(node[n].st.data) = Roster[2]

\* A block of client transactions follows a view-change block and all the
\* followers have applied it under the new leader.
CommittedByNewLeader ==
    \E i, j \in 1..Len(store) :
        /\ ViewChangeBody(store[i].body)
        /\ store[j].prev = i
        /\ ~ViewChangeBody(store[j].body)
        /\ \A n \in Followers :
            /\ j \in node[n].db
            /\ GetIndex(node[n].st) = store[j].index
            /\ LeaderOf(node[n].st.data) = Roster[2]

WaitReturned(n, c) ==
    /\ node[n].calls[c].pc = "returned"
    /\ node[n].calls[c].req.wait > 0
    /\ node[n].calls[c].res \notin CheckErrors

\* C12: a request with InclusionWait = N > 0 whose transaction is committed
\* as accepted in one of the next N blocks of the chain (the N-th
\* included) returns success, unless the timer fired; the wait channel is
\* registered before the transaction is buffered.
C12_InclusionSuccess ==
    \A n \in Nodes : \A c \in Calls :
        /\ (WaitReturned(n, c) /\ node[n].calls[c].hit /\ node[n].calls[c].res # "timeout")
            => node[n].calls[c].res = "ok"
        /\ node[n].calls[c].pc \in {"created", "registered"}
            => /\ node[n].wait[InstructionsHash(node[n].calls[c].req.tx)] = c
               /\ \A i \in 1..Len(node[n].buf) : node[n].buf[i] # node[n].calls[c].req.tx

\* The number of ids of the chain in a block channel.
RECURSIVE CountChain(_, _)
CountChain(ids, chain) ==
    IF ids = <<>> THEN 0
    ELSE (IF Head(ids) = chain THEN 1 ELSE 0) + CountChain(Tail(ids), chain)

\* The blocks of its chain the handler has taken from its block channel:
\* those the node applied since the handler registered, without those
\* still in the channel.
BlocksSeen(n, c) ==
    (Len(node[n].applied) - node[n].calls[c].base)
        - CountChain(node[n].calls[c].blockCh, node[n].calls[c].req.chain)

\* The transaction of the handler is in a block the node applied after the
\* handler registered, with the given accepted bit.
CommittedAs(n, c, accepted) ==
    \E i \in (node[n].calls[c].base + 1)..Len(node[n].applied) :
        \E k \in 1..Len(store[node[n].applied[i].id].body) :
            /\ store[node[n].applied[i].id].body[k].tx = node[n].calls[c].req.tx
            /\ store[node[n].applied[i].id].body[k].accepted = accepted

\* A handler in the loop has taken fewer than InclusionWait blocks of its
\* chain, and blocksLeft counts exactly those; a handler that returned
\* failed for one of the three reasons, and succeeded only if no block
\* holds its transaction as rejected.
WaitState(n, c) ==
    /\ node[n].calls[c].pc = "waiting"
        => /\ node[n].calls[c].blocksLeft >= 1
           /\ node[n].calls[c].blocksLeft = node[n].calls[c].req.wait - BlocksSeen(n, c)
    /\ WaitReturned(n, c)
        => /\ node[n].calls[c].res \in {"ok", "refused", "blocks", "timeout"}
           /\ node[n].calls[c].res = "refused" => CommittedAs(n, c, FALSE)
           /\ node[n].calls[c].res = "blocks"
                => Len(node[n].applied) - node[n].calls[c].base >= node[n].calls[c].req.wait
           /\ node[n].calls[c].res = "ok" => ~CommittedAs(n, c, FALSE)

\* A step of the loop of a handler: it returns the refusal when it takes
\* false from its wait channel, the block-count error when it takes the
\* last of the InclusionWait blocks of its chain, and goes on otherwise.
WaitStep(n, c) ==
    node[n].calls[c].pc = "waiting" =>
        /\ (node'[n].calls[c].pc = "returned" /\ node'[n].calls[c].res = "refused")
            => (node[n].calls[c].ch # <<>> /\ ~Head(node[n].calls[c].ch))
        /\ (node'[n].calls[c].pc = "returned" /\ node'[n].calls[c].res = "blocks")
            => /\ node[n].calls[c].blockCh # <<>>
               /\ Head(node[n].calls[c].blockCh) = node[n].calls[c].req.chain
               /\ node[n].calls[c].blocksLeft = 1
        /\ (node'[n].calls[c].pc = "waiting"
                /\ Len(node'[n].calls[c].blockCh) < Len(node[n].calls[c].blockCh))
            => \/ /\ Head(node[n].calls[c].blockCh) # node[n].calls[c].req.chain
                  /\ node'[n].calls[c].blocksLeft = node[n].calls[c].blocksLeft
               \/ /\ Head(node[n].calls[c].blockCh) = node[n].calls[c].req.chain
                  /\ node[n].calls[c].blocksLeft > 1
                  /\ node'[n].calls[c].blocksLeft = node[n].calls[c].blocksLeft - 1

\* C13: a request with InclusionWait = N fails when its transaction is
\* committed with accepted = false, when N blocks of its chain were
\* committed and taken without its notification, or when the timer of
\* 2 * N * interval fires, whichever the handler meets first; the blocks
\* of other chains do not count toward N.
C13_InclusionFailure ==
    /\ [](\A n \in Nodes : \A c \in Calls : WaitState(n, c))
    /\ [][\A n \in Nodes : \A c \in Calls : WaitStep(n, c)]_vars

\* A handler with InclusionWait = 2 that took the id of another chain has
\* returned the block-count error after two blocks of its chain, and its
\* transaction is in none of them.
C13_Witness ==
    \E n \in Nodes : \E c \in Calls :
        /\ WaitReturned(n, c)
        /\ node[n].calls[c].res = "blocks"
        /\ node[n].calls[c].req.wait = 2
        /\ ~CommittedAs(n, c, TRUE)
        /\ ~CommittedAs(n, c, FALSE)
        /\ node[n].calls[c].others

\* What a read on node n sees of the transaction tx: the counters of its
\* signers have reached the counters of its instructions, and the
\* instances it creates or updates are in the trie.
Observed(n, tx) ==
    \A k \in 1..Len(tx) :
        /\ \A j \in 1..Len(tx[k].signers) :
                GetSignerCounters(node[n], tx[k].signers)[j] >= tx[k].ctrs[j]
        /\ \A o \in 1..Len(tx[k].out) :
                tx[k].out[o].act \in {Create, Update} => KeySet(node[n].st.data, tx[k].out[o].iid)

\* C14: read-your-writes: once a request with inclusion wait has returned
\* success on a node, the transaction is accepted in a block the trie of
\* that node has committed, and every later read on that node sees its
\* state changes.
C14_ReadYourWrites ==
    \A n \in Nodes : \A c \in Calls :
        (WaitReturned(n, c) /\ node[n].calls[c].res = "ok")
        => /\ node[n].calls[c].req.tx \in node[n].acc
           /\ \E i \in 1..Len(node[n].applied) :
                /\ node[n].calls[c].req.tx \in AcceptedTxs(store[node[n].applied[i].id].body)
                /\ node[n].applied[i].index <= GetIndex(node[n].st)
           /\ Observed(n, node[n].calls[c].req.tx)

\* A request with inclusion wait has returned success, and a later block
\* has changed the instance its transaction created.
C14_Witness ==
    \E n \in Nodes : \E c \in Calls :
        /\ WaitReturned(n, c)
        /\ node[n].calls[c].res = "ok"
        /\ node[n].calls[c].req.tx = TxSpawn
        /\ Len(node[n].applied) = 3
        /\ TxRenew \in node[n].acc

(***************************************************************************)
(* Properties of the notifications.                                        *)
(***************************************************************************)
\* The accepted bits of the transactions of the body from position k on
\* whose hash is h.
RECURSIVE BitsOfBody(_, _, _)
BitsOfBody(body, h, k) ==
    IF k > Len(body) THEN <<>>
    ELSE (IF InstructionsHash(body[k].tx) = h THEN <<body[k].accepted>> ELSE <<>>)
         \o BitsOfBody(body, h, k + 1)

\* The same for the blocks at the positions from..to of the list of
\* applied blocks.
RECURSIVE BitsOfBlocks(_, _, _, _)
BitsOfBlocks(applied, h, from, to) ==
    IF from > to THEN <<>>
    ELSE BitsOfBody(store[applied[from].id].body, h, 1)
         \o BitsOfBlocks(applied, h, from + 1, to)

\* A step in which the handler c of node n does not move.
HandlerIdles(n, c) ==
    /\ node'[n].calls[c].pc = node[n].calls[c].pc
    /\ node'[n].calls[c].blocksLeft = node[n].calls[c].blocksLeft
    /\ node'[n].calls[c].others = node[n].calls[c].others
    /\ Len(node'[n].calls[c].blockCh) >= Len(node[n].calls[c].blockCh)

\* The channels of the handler c after a step of node n that is not a
\* step of the handler: the wait channel registered for c has received
\* the bits of its transaction in the blocks applied by the step, the
\* block channel of a subscriber one id of the chain per block applied;
\* the trie holds the last of these blocks.
Notified(n, c) ==
    HandlerIdles(n, c) =>
        /\ node'[n].calls[c].ch =
            node[n].calls[c].ch \o
            (IF node[n].calls[c].pc \in {"created", "registered", "waiting"}
                /\ node[n].wait[InstructionsHash(node[n].calls[c].req.tx)] = c
             THEN BitsOfBlocks(node'[n].applied, InstructionsHash(node[n].calls[c].req.tx),
                               Len(node[n].applied) + 1, Len(node'[n].applied))
             ELSE <<>>)
        /\ CountChain(node'[n].calls[c].blockCh, ChainID)
            = CountChain(node[n].calls[c].blockCh, ChainID)
              + (IF node[n].calls[c].sub THEN Len(node'[n].applied) - Len(node[n].applied)
                 ELSE 0)
        /\ Len(node'[n].applied) > Len(node[n].applied)
            => /\ GetIndex(node'[n].st) = Last(node'[n].applied).index
               /\ node'[n].st.data = node'[n].last.post

\* C15: when the callback applies a block, the wait channel registered
\* under the hash of each transaction of its body receives the accepted
\* bit of that transaction and every registered block channel receives
\* the chain id, after the trie has committed the block; a callback that
\* does not apply its block notifies nobody.
C15_Notifications == [][\A n \in Nodes : \A c \in Calls : Notified(n, c)]_vars

\* A handler in the loop has been told that its transaction is rejected
\* and that a block was applied.
C15_Witness ==
    \E n \in Nodes : \E c \in Calls :
        /\ node[n].calls[c].pc = "waiting"
        /\ node[n].calls[c].ch = <<FALSE>>
        /\ node[n].calls[c].blockCh = <<ChainID>>
        /\ CommittedAs(n, c, FALSE)

(***************************************************************************)
(* The download of the state.                                              *)
(***************************************************************************)
\* The root of the trie st is the trie root of the header of a block of
\* the chain whose index is the index of st.
RootOfChain(st) ==
    \E c \in 1..Len(store) : store[c].index = GetIndex(st) /\ store[c].root = GetRoot(st.data)

\* C16: after a download of the state, the trie of the node (if it has
\* one) has the root of the header of the block of its index: data whose
\* root does not match is not installed, whether a later candidate
\* succeeds or downloadDB returns its error.
C16_DownloadVerified ==
    \A n \in Nodes :
        node[n].dl.made /\ node[n].st.exists => RootOfChain(node[n].st)

(***************************************************************************)
(* The pull of the missing blocks.                                         *)
(***************************************************************************)
\* A round of the loop of catchUp on node n (no block reaches a node of
\* SpecCatchUp from elsewhere while it catches up).
PullRound(n) == node[n].catchingUp /\ node[n].st.exists /\ node'[n] # node[n]

\* The index of the last block the loop has pulled so far.
PulledTo(nd) == IF nd.cuLatest # 0 THEN store[nd.cuLatest].index ELSE GetIndex(nd.st)

\* The round applies at most one chunk, block after block in the order
\* of the indices, each by the commit callback.
PullsChunk(n) ==
    /\ Len(node'[n].applied) - Len(node[n].applied) <= catchupFetchBlocks
    /\ GetIndex(node'[n].st) = GetIndex(node[n].st)
                                + Len(node'[n].applied) - Len(node[n].applied)
    /\ \A i \in (Len(node[n].applied) + 1)..Len(node'[n].applied) :
            /\ node'[n].applied[i].index = GetIndex(node[n].st) + i - Len(node[n].applied)
            /\ node'[n].applied[i].id \in node'[n].db
            /\ store[node'[n].applied[i].id].index = node'[n].applied[i].index

\* A round that is not the last one has pulled further, and not yet up to
\* the reference block.
PullGoesOn(n) ==
    node'[n].catchingUp =>
        /\ PulledTo(node'[n]) > PulledTo(node[n])
        /\ PulledTo(node'[n]) < store[node[n].cuTarget].index
        /\ node'[n].cuTarget = node[n].cuTarget

\* C17 as stated: the rounds of catchUp pull chunks in index order, and
\* catchUp ends with the index and the root of the trie being those of the
\* reference block.
C17_CatchUpReachesB ==
    [][\A n \in Nodes : PullRound(n) =>
            /\ PullsChunk(n)
            /\ PullGoesOn(n)
            /\ ~node'[n].catchingUp =>
                    /\ GetIndex(node'[n].st) = store[node[n].cuTarget].index
                    /\ GetRoot(node'[n].st.data) = store[node[n].cuTarget].root]_vars

\* C17, amended: the rounds of catchUp pull chunks in index order, and
\* catchUp ends with the trie at or beyond the reference block, its root
\* being the trie root of the header of the block of its index; it ends at
\* the reference block itself if the chain has no block after it.
C17_CatchUpConverges ==
    [][\A n \in Nodes : PullRound(n) =>
            /\ PullsChunk(n)
            /\ PullGoesOn(n)
            /\ ~node'[n].catchingUp =>
                    /\ GetIndex(node'[n].st) >= store[node[n].cuTarget].index
                    /\ RootOfChain(node'[n].st)
                    /\ Succ(node[n].cuTarget) = 0 =>
                            /\ GetIndex(node'[n].st) = store[node[n].cuTarget].index
                            /\ GetRoot(node'[n].st.data) = store[node[n].cuTarget].root]_vars

\* A node between two rounds of catchUp: the first chunk is applied and
\* the reference block is still ahead.
C17_Witness ==
    \E n \in Nodes :
        /\ node[n].catchingUp
        /\ node[n].cuLatest # 0
        /\ GetIndex(node[n].st) = store[node[n].cuLatest].index
        /\ GetIndex(node[n].st) >= catchupFetchBlocks - 1
        /\ store[node[n].cuTarget].index > GetIndex(node[n].st)

(***************************************************************************)
(* The rate of the catch-ups.                                              *)
(***************************************************************************)
\* Node n starts a catch-up in this step.
StartsCatchUp(n) == ~node[n].catchingUp /\ node'[n].catchingUp

\* C18: a node starts a catch-up of the chain at least
\* catchupMinimumInterval after it started the one before, whether getTxs
\* or the commit callback starts it.
C18_RateLimit ==
    [][\A n \in Nodes :
            StartsCatchUp(n) /\ clock.started[n] >= 0
                => clock.now - clock.started[n] >= catchupMinimumInterval]_vars

(***************************************************************************)
(* The read-only queries and the catch-up.                                 *)
(***************************************************************************)
\* C19: a GetProof or CheckAuthorization request that arrives while the
\* node catches up returns the catching-up error and has not read the
\* trie, and a request that has read the trie held updateTrieLock.
C19_QueriesGuarded ==
    \A n \in Nodes :
        node[n].query.kind \in {"GetProof", "CheckAuthorization"} =>
            /\ node[n].query.during =>
                    node[n].query.err = "catchingUp" /\ ~node[n].query.read
            /\ node[n].query.read => node[n].query.held

(***************************************************************************)
(* The requests AddTransaction refuses.                                    *)
(***************************************************************************)
\* The request has the wrong version, no instruction, a chain whose
\* genesis block the node does not know or whose roster it is not part
\* of, or a transaction larger than the block size.
Refusable(n, req) ==
    \/ req.version # CurrentVersion
    \/ req.tx = <<>>
    \/ req.chain # ChainID
    \/ ~\E id \in node[n].db : store[id].index = 0
    \/ txSize(req.tx) > MaxBlockSize

\* The handler c of node n takes a request in this step.
Requested(n, c) == node[n].calls[c].pc = "idle" /\ node'[n].calls[c].pc # "idle"

\* C20: the handler of a request that is wrong in one of the five ways
\* returns an error, and the step changes nothing but the record of this
\* handler: the buffer, the wait channels, the block channels, the trie
\* and everything else are as before.
C20_RefusedUnchanged ==
    [][\A n \in Nodes, c \in Calls :
            Requested(n, c) /\ Refusable(n, node'[n].calls[c].req) =>
                /\ node'[n].calls[c].pc = "returned"
                /\ node'[n].calls[c].res \in CheckErrors
                /\ node'[n] = [node[n] EXCEPT !.calls[c].pc  = "returned",
                                              !.calls[c].res = node'[n].calls[c].res,
                                              !.calls[c].req = node'[n].calls[c].req]
                /\ \A m \in Nodes \ {n} : node'[m] = node[m]
                /\ UNCHANGED <<store, proposals, rounds, trie, call, clock>>]_vars

\* A handler has refused a transaction that is too large while another
\* transaction waits in the buffer of the chain.
C20_Witness ==
    \E n \in Nodes, c \in Calls :
        /\ node[n].calls[c].pc = "returned"
        /\ node[n].calls[c].res = "large"
        /\ node[n].st.exists
        /\ \E m \in Nodes : node[m].buf # <<>>

(***************************************************************************)
(* The stream of DownloadState.                                            *)
(***************************************************************************)
\* C21: a request with the nonce 0 for a chain the node knows starts a new
\* stream and returns a fresh nonce; a request with another nonce whose
\* chain or nonce is not the one of the current stream fails and takes no
\* entry from the stream; the pages of a stream return the entries of the
\* bucket once each and in order, and a page shorter than the length asked
\* for is the last one: nothing is left to send and every entry was
\* returned.
C21_StreamProtocol ==
    \A n \in Nodes :
        LET ds == node[n].ds
            r  == ds.resp IN
        /\ (r.req.length > 0 /\ r.req.nonce = 0 /\ r.known) =>
                /\ r.err = "none"
                /\ r.nonce \notin {0, r.before.nonce}
                /\ ds.id = r.req.id /\ ds.nonce = r.nonce
        /\ (r.req.length > 0 /\ r.req.nonce # 0
                /\ (r.req.id # r.before.id \/ r.req.nonce # r.before.nonce)) =>
                /\ r.err # "none"
                /\ ds.read = r.before.read
        /\ Len(ds.got) <= Len(ds.snap) /\ ds.got = SubSeq(ds.snap, 1, Len(ds.got))
        /\ (r.err = "none" /\ Len(r.kvs) < r.req.length) =>
                /\ ds.read = <<>>
                /\ ds.got = ds.snap

(***************************************************************************)
(* The Debug and DebugRemove endpoints.                                    *)
(***************************************************************************)
\* A request to Debug or DebugRemove from another address than loopback is
\* not served.
LoopbackOnly ==
    \A n \in Nodes :
        (node[n].debug.path \in DebugPaths /\ ~IsLoopback(node[n].debug.addr)) =>
            ~node[n].debug.served

\* A request to DebugRemove without a valid signature of the chain id under
\* the key of the node changes nothing of the node but the record of the
\* request.
UnsignedRemovesNothing ==
    \A n \in Nodes :
        (node'[n].debug # node[n].debug /\ node'[n].debug.path = "DebugRemove"
            /\ ~node'[n].debug.valid) =>
            node'[n] = [node[n] EXCEPT !.debug = node'[n].debug]

\* C22: requests to Debug and to DebugRemove from a non-loopback address
\* are refused, and DebugRemove changes no state of the node (heartbeat,
\* polling channel, state trie, view-change monitor) unless the request
\* carries a valid Schnorr signature of the chain id under the key of the
\* node.
C22_DebugGuarded == []LoopbackOnly /\ [][UnsignedRemovesNothing]_vars

(***************************************************************************)
(* Transactions that fail.                                                 *)
(***************************************************************************)
\* The accepted bits of a body executed on the trie contents t when the
\* staging trie after a failed transaction is the one before it.
RECURSIVE FrameBits(_, _)
FrameBits(t, body) ==
    IF body = <<>> THEN <<>>
    ELSE IF ProcessOneTx(t, Head(body).tx).err THEN <<FALSE>> \o FrameBits(t, Tail(body))
    ELSE <<TRUE>> \o FrameBits(ProcessOneTx(t, Head(body).tx).sst, Tail(body))

\* The state changes of the same execution: those of the transactions
\* without a failing instruction.
RECURSIVE FrameStates(_, _)
FrameStates(t, body) ==
    IF body = <<>> THEN <<>>
    ELSE IF ProcessOneTx(t, Head(body).tx).err THEN FrameStates(t, Tail(body))
    ELSE ProcessOneTx(t, Head(body).tx).scs
            \o FrameStates(ProcessOneTx(t, Head(body).tx).sst, Tail(body))

\* A transaction of the body fails after an instruction of it has changed
\* the staging clone.
FailsHalfway(t, body) ==
    \E i \in 1..Len(body) :
        /\ ~FrameBits(t, body)[i]
        /\ ~executeInstruction(Batch(t, FrameStates(t, SubSeq(body, 1, i - 1))),
                               body[i].tx[1]).err

\* C23: in every block a node proposes or applies, a transaction with a failing
\* instruction is marked accepted=false, the transactions after it are
\* executed on the staging trie from before it, the state changes of the
\* block hold no change of it (nor a counter change of its earlier
\* instructions), the trie after the block is the trie before it with the
\* state changes of the block; and building or verifying a proposal leaves
\* the tries of the nodes as they are.
FrameOfApplied ==
    \A n \in Nodes :
        node[n].last.id # 0 =>
            /\ \A i \in 1..Len(node[n].last.body) :
                    node[n].last.body[i].accepted = FrameBits(node[n].last.pre, node[n].last.body)[i]
            /\ node[n].last.scs = FrameStates(node[n].last.pre, node[n].last.body)
            /\ node[n].last.post = Batch(node[n].last.pre, node[n].last.scs)

\* The same for the block of a proposal, built on the staging trie sst of
\* its leader.
FrameOfProposed ==
    \A p \in proposals :
        /\ \A i \in 1..Len(p.sb.body) :
                p.sb.body[i].accepted = FrameBits(p.pre, p.sb.body)[i]
        /\ p.sb.scHash = StateChangesHash(FrameStates(p.pre, p.sb.body))
        /\ p.sb.root = GetRoot(Batch(p.pre, FrameStates(p.pre, p.sb.body)))

CallerTrieKept == proposals' # proposals => \A n \in Nodes : node'[n].st = node[n].st

C23_FailedTxNoResidue == []FrameOfApplied /\ []FrameOfProposed /\ [][CallerTrieKept]_vars

\* A block was applied in which a transaction failed after its first
\* instruction had changed the staging clone and a transaction after it
\* was accepted.
C23_Witness ==
    \E n \in Nodes :
        /\ node[n].last.id # 0
        /\ FailsHalfway(node[n].last.pre, node[n].last.body)
        /\ \E i, j \in 1..Len(node[n].last.body) :
            /\ i < j
            /\ ~node[n].last.body[i].accepted
            /\ node[n].last.body[j].accepted

(***************************************************************************)
(* The verification of a proposed block.                                   *)
(***************************************************************************)
\* The header of the block sb agrees with the execution of its body on the
\* trie contents t: as many results as transactions, the same accepted
\* bits, the same hashes and the same root.
AgreesWithExecution(sb, t) ==
    /\ Len(FrameBits(t, sb.body)) = Len(sb.body)
    /\ \A i \in 1..Len(sb.body) : sb.body[i].accepted = FrameBits(t, sb.body)[i]
    /\ sb.txHash = TxResultsHash([i \in 1..Len(sb.body) |->
                        TxResult(sb.body[i].tx, FrameBits(t, sb.body)[i])])
    /\ sb.scHash = StateChangesHash(FrameStates(t, sb.body))
    /\ sb.root = GetRoot(Batch(t, FrameStates(t, sb.body)))

\* A node that has executed the body of a proposed block votes against the
\* block unless its header agrees with the execution.
MismatchRejected ==
    \A p \in proposals : \A n \in Nodes :
        (p.votes[n].cast /\ p.votes[n].executed /\ ~AgreesWithExecution(p.sb, p.votes[n].pre))
            => ~p.votes[n].ok

\* A step in which nodes vote leaves their tries as they are.
VerifyKeepsTrie ==
    (\E p \in proposals' : \E n \in Nodes :
        p.votes[n].cast /\ \A q \in proposals : q.sb = p.sb => ~q.votes[n].cast)
        => \A n \in Nodes : node'[n].st = node[n].st

\* C24: verifySkipBlock rejects a proposed block whenever the execution of
\* its body on the trie of the node gives another number of results,
\* another accepted bit at some index, or a client_tx_hash,
\* state_changes_hash or trie_root that is not the one of the header; and
\* verifying a block, accepted or rejected, changes neither the committed
\* trie of the node nor its index.
C24_VerifyRejectsMismatch == []MismatchRejected /\ [][VerifyKeepsTrie]_vars

(***************************************************************************)
(* The timestamp of a block.                                               *)
(***************************************************************************)
Abs(x) == IF x < 0 THEN -x ELSE x
Max(x, y) == IF x < y THEN y ELSE x

\* C25: a block passes the timestamp check of verifySkipBlock exactly when
\* its timestamp ts satisfies |ts - now| <= W, both bounds included, with
\* W = max(4 * block_interval, 10 s) and block_interval taken from the
\* configuration after the state changes of the block.
C25_TimestampWindow ==
    clock.stamp.done =>
        (clock.stamp.ok <=>
            Abs(clock.stamp.ts - clock.stamp.now)
                <= Max(4 * blockIntervalAfter(clock.stamp.interval, clock.stamp.update), 10))

\* A block whose timestamp is exactly now - W was accepted, W being the
\* window of an interval the block itself has set and larger than the
\* window of the interval before.
C25_Witness ==
    /\ clock.stamp.done
    /\ clock.stamp.ok
    /\ clock.stamp.update # 0
    /\ 4 * clock.stamp.update > 10
    /\ 4 * clock.stamp.interval < 4 * clock.stamp.update
    /\ clock.stamp.ts = clock.stamp.now - 4 * clock.stamp.update

(***************************************************************************)
(* The collection of transactions.                                         *)
(***************************************************************************)
\* The collection request of this step finds node m open, knowing the
\* latest block of the request and with the claimed leader first in the
\* roster of its configuration.
CollectGranted(m) ==
    /\ ~node[m].closed
    /\ node'[m].collect.id \in node[m].db
    /\ node[m].st.exists
    /\ node'[m].collect.leader = Roster[(node[m].st.data[ConfigInstanceID].val % Len(Roster)) + 1]

\* C26: getTxs returns the buffered transactions of the chain, empties the
\* buffer and beats the heartbeat only if the service is not closed, the
\* latest block of the request is known to the node and the claimed leader
\* is the first node of the roster of the local configuration; in every
\* other case it returns an empty list, leaves the buffer untouched and
\* does not beat the heartbeat.
C26_CollectGuarded ==
    [][\A m \in Nodes :
        node'[m].collect # node[m].collect =>
            IF CollectGranted(m)
            THEN /\ node'[m].collect.txs = node[m].buf
                 /\ node'[m].buf = <<>>
                 /\ node'[m].collect.beat
            ELSE /\ node'[m].collect.txs = <<>>
                 /\ node'[m].buf = node[m].buf
                 /\ ~node'[m].collect.beat]_vars

\* A request of the leader was answered with two buffered transactions
\* after a request of another node had got nothing.
C26_Witness ==
    \E m \in Nodes :
        /\ node[m].collect.count >= 2
        /\ Len(node[m].collect.txs) = 2
        /\ node[m].collect.beat
        /\ node[m].buf = <<>>

(***************************************************************************)
(* The buffer of the transactions.                                         *)
(***************************************************************************)
\* The transactions the calls of take have returned for a chain, followed
\* by those still in its buffer, are the transactions added for the chain,
\* each once and in the order of the calls of add.
NoneLostNoneTwice ==
    \A k \in Chains :
        node[Roster[1]].txb.taken[k] \o node[Roster[1]].txb.txsMap[k].txs
            = node[Roster[1]].txb.added[k]

\* A call of take that returns empties the buffer of its chain and leaves
\* the buffers of the other chains as they are.
TakeEmptiesOwnChain ==
    \A t \in Threads :
        (node[Roster[1]].txb.th[t].pc = "take.delete" /\ node'[Roster[1]].txb.th[t].pc = "idle") =>
            /\ node'[Roster[1]].txb.txsMap[node[Roster[1]].txb.th[t].key].txs = <<>>
            /\ node'[Roster[1]].txb.taken[node[Roster[1]].txb.th[t].key]
                = node[Roster[1]].txb.taken[node[Roster[1]].txb.th[t].key]
                    \o node[Roster[1]].txb.txsMap[node[Roster[1]].txb.th[t].key].txs
            /\ \A k \in Chains \ {node[Roster[1]].txb.th[t].key} :
                    node'[Roster[1]].txb.txsMap[k] = node[Roster[1]].txb.txsMap[k]

\* C27: under any interleaving of add and take every added transaction is
\* returned by exactly one take, none lost and none twice; a take returns
\* the transactions of its chain in the order they were added, empties the
\* buffer of that chain and leaves the buffers of the other chains
\* unchanged.
C27_BufferFifo == []NoneLostNoneTwice /\ [][TakeEmptiesOwnChain]_vars

\* Two transactions added to a chain were returned by one take while a
\* transaction of the other chain stayed in its buffer.
C27_Witness ==
    \E k \in Chains : \E o \in Chains \ {k} :
        /\ Len(node[Roster[1]].txb.taken[k]) = 2
        /\ node[Roster[1]].txb.txsMap[k].txs = <<>>
        /\ Len(node[Roster[1]].txb.txsMap[o].txs) = 1
        /\ node[Roster[1]].txb.takes = 1

(***************************************************************************)
(* The index check of the commit callback.                                 *)
(***************************************************************************)
\* The callback of node n for the block id gets as far as the index check:
\* the service is not closed, the trie is loaded and the block is not
\* skipped for its forward links.
ReachesIndexCheck(n, id) ==
    /\ ~node[n].closed
    /\ node[n].st.exists
    /\ ~(hasForwardLink(node[n].db \cup {id}, id) /\ ~node[n].catchingUp /\ store[id].index # 0)

\* The node n after the callback for the stored block id.
AfterCallback(n, id) ==
    updateTrieCallback(n, [node[n] EXCEPT !.db = @ \cup {id}], store[id])

LeaderAndSubLeaders(nodes) ==
    {ri \in 0..(nodes - 1) : (ri - 1) * (ri - 1) * (ri - 1) < nodes}

\* C29: catchUp downloads the state when the trie cannot be loaded or the
\* reference block is more than 100 indices ahead of it, and it pulls the
\* blocks when the gap is 100 or less; the download sends its requests to
\* positions of the roster that are neither the leader nor a subleader,
\* and to one of them at least when there is one.
C29_DownloadChoice ==
    clock.choice.done =>
        /\ clock.choice.download
                <=> (~clock.choice.exists
                     \/ clock.choice.sbIndex - clock.choice.trieIndex > 100)
        /\ ~clock.choice.download => clock.choice.asked = {}
        /\ clock.choice.asked \subseteq
                (0..(clock.choice.nodes - 1)) \ LeaderAndSubLeaders(clock.choice.nodes)
        /\ (clock.choice.download
            /\ (0..(clock.choice.nodes - 1)) \ LeaderAndSubLeaders(clock.choice.nodes) # {})
                => clock.choice.asked # {}

\* catchUp has pulled the blocks of a gap of 100 with a trie.
C29_Witness ==
    /\ clock.choice.done
    /\ clock.choice.exists
    /\ clock.choice.sbIndex - clock.choice.trieIndex = 100
    /\ ~clock.choice.download

(***************************************************************************)
(* The accesses to the back-end of the trie.                               *)
(***************************************************************************)
\* No callback reads or writes the trie of a node while downloadDB is at
\* work on its bucket.
NoCallbackDuringDownload ==
    \A n \in Nodes : node[n].access.by = "callback" => ~node[n].access.during

\* Every access to the back-end of the trie is made with updateTrieLock held.
AccessUnderLock ==
    \A n \in Nodes : node[n].access.by # "none" => node[n].access.held

\* C30: the accesses to the stored trie of a chain are serialized: no
\* commit callback reads or writes the trie while a download of the state
\* deletes and rewrites its bucket, and every access to the back-end of
\* the trie is made with updateTrieLock held.
C30_TrieSerialized == NoCallbackDuringDownload /\ AccessUnderLock

(***************************************************************************)
(* The close of the service.                                               *)
(***************************************************************************)
\* The goroutine of catchUp of node n is at work.
CatchUpRunning(n) == node[n].catchingUp /\ node[n].cuTarget # 0

\* No polling task runs on a closed service.
ClosedStopsPolling == \A n \in Nodes : node[n].closed => ~node[n].polling

\* When TestClose has returned, the catch-up tasks have finished.
ClosedAfterCatchUp == \A n \in Nodes : node[n].closed => ~CatchUpRunning(n)

\* On a closed service the callbacks and the collection requests change
\* neither the trie, the caches, the buffer, the notifications and the
\* applied blocks nor the tasks of the service, and no catch-up starts.
ClosedFrozen ==
    \A n \in Nodes : (node[n].closed /\ node'[n].closed) =>
        /\ node'[n].st = node[n].st
        /\ node'[n].cache = node[n].cache
        /\ node'[n].buf = node[n].buf
        /\ node'[n].wait = node[n].wait
        /\ node'[n].last = node[n].last
        /\ node'[n].applied = node[n].applied
        /\ node'[n].polling = node[n].polling
        /\ node'[n].hb = node[n].hb
        /\ node'[n].vc = node[n].vc
        /\ (~node[n].catchingUp => ~node'[n].catchingUp)
        /\ node'[n].collect # node[n].collect
                => node'[n].collect.txs = <<>> /\ ~node'[n].collect.beat

\* C31: once TestClose has set the close flag, the commit callback and
\* getTxs return without changing any state, no polling or catch-up task
\* starts, and TestClose has returned only after the tasks that started
\* before it have finished.
C31_CloseQuiesces ==
    /\ []ClosedStopsPolling
    /\ []ClosedAfterCatchUp
    /\ [][ClosedFrozen]_vars

(***************************************************************************)
(* The size of the planned blocks.                                         *)
(***************************************************************************)
\* The encoded size of the transactions of a body from position i on.
RECURSIVE SizeFrom(_, _)
SizeFrom(body, i) ==
    IF i > Len(body) THEN 0 ELSE txSize(body[i].tx) + SizeFrom(body, i + 1)

\* C32: the transactions createStateChanges returns to the leader that
\* plans a block, which are the body of the block it proposes, have a
\* total encoded size of MaxBlockSize at most.
C32_PlannedWithinSize ==
    \A p \in proposals : SizeFrom(p.sb.body, 1) <= MaxBlockSize

(***************************************************************************)
(* Remove and Create of one instance in one block.                         *)
(***************************************************************************)
\* The changes scs remove an instance and create it again later.
RemoveThenCreate(scs) ==
    \E i, j \in 1..Len(scs) :
        /\ i < j
        /\ scs[i].act = Remove
        /\ scs[j].act = Create
        /\ scs[i].iid = scs[j].iid

\* C33: no verifier votes for a block whose transactions remove an
\* instance and create it again, and no node applies such a block.
C33_RemoveCreateRejected ==
    /\ \A p \in proposals : \A n \in Nodes :
            (p.votes[n].cast /\ p.votes[n].ok) => ~RemoveThenCreate(p.votes[n].scs)
    /\ \A n \in Nodes : node[n].last.id # 0 => ~RemoveThenCreate(node[n].last.scs)

(***************************************************************************)
(* Forbidden state changes.                                                *)
(***************************************************************************)
\* One of the changes scs, each judged against the contents t with the
\* changes before it, creates a present instance or updates or removes an
\* absent one.
RECURSIVE ForbiddenAmong(_, _)
ForbiddenAmong(t, scs) ==
    IF scs = <<>> THEN FALSE
    ELSE \/ Head(scs).act = Create /\ t[Head(scs).iid].present
         \/ Head(scs).act \in {Update, Remove} /\ ~t[Head(scs).iid].present
         \/ ForbiddenAmong(BatchOne(t, Head(scs)), Tail(scs))

\* The execution of the instructions on the contents t yields a forbidden
\* change: the instructions before it are executed and stored, and the
\* contract of the instruction returns the change without an error.
RECURSIVE YieldsForbidden(_, _)
YieldsForbidden(t, instrs) ==
    IF instrs = <<>> THEN FALSE
    ELSE IF executeInstruction(t, Head(instrs)).err THEN FALSE
    ELSE \/ ForbiddenAmong(t, executeInstruction(t, Head(instrs)).scs)
         \/ YieldsForbidden(Batch(Batch(t, executeInstruction(t, Head(instrs)).scs),
                                  incrementSignerCounters(t, Head(instrs).signers)),
                            Tail(instrs))

\* The state changes of the transactions of a body that are marked as
\* accepted, executed in their order on the contents t.
RECURSIVE StatesOfAccepted(_, _)
StatesOfAccepted(t, body) ==
    IF body = <<>> THEN <<>>
    ELSE IF ~Head(body).accepted THEN StatesOfAccepted(t, Tail(body))
    ELSE ProcessOneTx(t, Head(body).tx).scs
            \o StatesOfAccepted(Batch(t, ProcessOneTx(t, Head(body).tx).scs), Tail(body))

\* The transaction i of the body yields a forbidden change on the staging
\* trie it is executed on: the contents t with the changes of the accepted
\* transactions before it.
ForbiddenAt(t, body, i) ==
    YieldsForbidden(Batch(t, StatesOfAccepted(t, SubSeq(body, 1, i - 1))), body[i].tx)

\* C34: in every block a leader proposes and in every block a node
\* applies, a transaction whose execution yields a Create of a present
\* instance or an Update or a Remove of an absent one, judged against the
\* staging trie with the earlier changes of the block, is marked
\* accepted=false, and the state changes of the block are those of its
\* accepted transactions.
C34_ForbiddenRejected ==
    /\ \A p \in proposals :
        /\ \A i \in 1..Len(p.sb.body) :
                ForbiddenAt(p.pre, p.sb.body, i) => ~p.sb.body[i].accepted
        /\ p.sb.scHash = StateChangesHash(StatesOfAccepted(p.pre, p.sb.body))
    /\ \A n \in Nodes :
        node[n].last.id # 0 =>
            /\ \A i \in 1..Len(node[n].last.body) :
                    ForbiddenAt(node[n].last.pre, node[n].last.body, i)
                        => ~node[n].last.body[i].accepted
            /\ node[n].last.scs = StatesOfAccepted(node[n].last.pre, node[n].last.body)

\* A node has applied a block in which the first transaction created x and
\* the second one, refused, created it again.
C34_Witness ==
    \E n \in Nodes :
        /\ node[n].last.id # 0
        /\ Len(node[n].last.body) = 2
        /\ node[n].last.body[1].accepted
        /\ ForbiddenAt(node[n].last.pre, node[n].last.body, 2)
        /\ ~node[n].last.body[2].accepted

(***************************************************************************)
(* Contracts that return an error.                                         *)
(***************************************************************************)
\* The instruction with a contract that returns no error.
Faultless(instr) == [instr EXCEPT !.cerr = FALSE]

\* The execution of the instructions on the contents t comes to an
\* instruction whose contract returns an error: the instructions before it
\* are executed and stored, and the instruction itself is verified.
RECURSIVE ContractFails(_, _)
ContractFails(t, instrs) ==
    IF instrs = <<>> THEN FALSE
    ELSE IF executeInstruction(t, Faultless(Head(instrs))).err THEN FALSE
    ELSE IF Head(instrs).cerr THEN TRUE
    ELSE IF ForbiddenAmong(t, executeInstruction(t, Head(instrs)).scs) THEN FALSE
    ELSE ContractFails(Batch(Batch(t, executeInstruction(t, Head(instrs)).scs),
                             incrementSignerCounters(t, Head(instrs).signers)),
                       Tail(instrs))

\* The contract of an instruction of the transaction i of the body returns
\* an error on the staging trie the transaction is executed on.
ContractFailsAt(t, body, i) ==
    ContractFails(Batch(t, StatesOfAccepted(t, SubSeq(body, 1, i - 1))), body[i].tx)

\* C35: in every block a leader proposes and in every block a node
\* applies, a transaction with an instruction whose contract returns an
\* error or panics, with or without state changes, is marked
\* accepted=false, the block has the state changes of its accepted
\* transactions only, and the transactions after it are in the block.
C35_ContractFaultLocal ==
    /\ \A p \in proposals :
        /\ \A i \in 1..Len(p.sb.body) :
                ContractFailsAt(p.pre, p.sb.body, i) => ~p.sb.body[i].accepted
        /\ p.sb.scHash = StateChangesHash(StatesOfAccepted(p.pre, p.sb.body))
        /\ Len(p.sb.body) = Len(p.txIn)
    /\ \A n \in Nodes :
        node[n].last.id # 0 =>
            /\ \A i \in 1..Len(node[n].last.body) :
                    ContractFailsAt(node[n].last.pre, node[n].last.body, i)
                        => ~node[n].last.body[i].accepted
            /\ node[n].last.scs = StatesOfAccepted(node[n].last.pre, node[n].last.body)

(***************************************************************************)
(* The hits of the state-change cache.                                     *)
(***************************************************************************)
\* The staging trie node n passes to createStateChanges when it verifies
\* the block sb.
StagingOf(n, sb) == IF sb.index = 0 THEN EmptyTrie ELSE node[n].st.data

\* What createStateChanges computes for the body of sb on node n when it
\* does not find it in the cache.
Computed(n, sb) ==
    batchDone(node[n].cache, runTxs(StagingOf(n, sb), sb.body, <<>>, <<>>, 0, 0, noTimeout, 0))

\* C36: in every state, for every node that can verify a proposed block
\* and finds the body in its state-change cache: the root, the
\* transaction results and the state changes createStateChanges returns
\* from the cache are those of the execution of the body on the staging
\* trie the node passes in.
C36_CacheHitSound ==
    \A p \in proposals : \A n \in Nodes :
        ((p.sb.index = 0 \/ node[n].st.exists)
            /\ createStateChanges(node[n].cache, StagingOf(n, p.sb), p.sb.body, noTimeout, 0).hit)
        => /\ createStateChanges(node[n].cache, StagingOf(n, p.sb), p.sb.body, noTimeout, 0).root
                = Computed(n, p.sb).root
           /\ createStateChanges(node[n].cache, StagingOf(n, p.sb), p.sb.body, noTimeout, 0).txOut
                = Computed(n, p.sb).txOut
           /\ createStateChanges(node[n].cache, StagingOf(n, p.sb), p.sb.body, noTimeout, 0).states
                = Computed(n, p.sb).states

(***************************************************************************)
(* The reset of catchingUp.                                                *)
(***************************************************************************)
\* C37: whenever catchingUp of a node is set, by the gap detection of the
\* callback, by catchupAll or by catchupFromID, it is eventually reset to
\* false, also when the reference block cannot be fetched, the download
\* fails or a block pull fails.
C37_CatchingUpReset ==
    \A n \in Nodes : node[n].catchingUp ~> ~node[n].catchingUp

(***************************************************************************)
(* The state after a download that failed.                                 *)
(***************************************************************************)
\* C38: after a download of the state that failed for every candidate, the
\* trie getStateTrie returns on the node, which the callback, the
\* verification and the queries then use, holds no downloaded data that
\* was not verified: the node has no trie, or its trie has the root of the
\* header of the block of its index.
C38_FailedDownloadUnused ==
    \A n \in Nodes :
        (node[n].dl.made /\ node[n].dl.err) => (~node[n].st.exists \/ RootOfChain(node[n].st))

(***************************************************************************)
(* The polling task and the leader.                                        *)
(***************************************************************************)
\* The callback has applied a block on node n in this step.
AppliesBlock(n) == Len(node'[n].applied) > Len(node[n].applied)

\* After the callback has applied a block, the node has a polling task
\* and its channel exactly when it is the leader of the configuration of
\* its trie.
PollsIffLeader ==
    \A n \in Nodes :
        AppliesBlock(n) => /\ node'[n].polling <=> (LeaderOf(node'[n].st.data) = n)
                           /\ node'[n].tasks >= 1 <=> (LeaderOf(node'[n].st.data) = n)

AtMostOneTask == \A n \in Nodes : node[n].tasks <= 1

RemovesTrie(n) == node[n].st.exists /\ ~node'[n].st.exists

\* After the removal hasStateTrie is false.
RemovedHasNoTrie == \A n \in Nodes : RemovesTrie(n) => ~hasStateTrie(node'[n])

\* No handler has returned with stateTriesLock held.
TriesUnlocked == \A n \in Nodes : ~node[n].triesLocked

\* C40: after a DebugRemove of the chain that returns success the node
\* holds no state trie for the chain (hasStateTrie is false, the entry is
\* gone from stateTries), and DebugRemove releases stateTriesLock on every
\* return path.
C40_RemovedAndUnlocked == [][RemovedHasNoTrie]_vars /\ []TriesUnlocked

====
